---- MODULE Spec2Model ----
(***************************************************************************)
(* Model of the Fun Text Transformer actor (src/unnamed/part_003): the     *)
(* transformation registry, the standby HTTP handler and the standard      *)
(* (batch) run.                                                            *)
(*                                                                         *)
(* Text is a sequence of UTF-16 code units, one string per unit, as the    *)
(* JavaScript string operations of the source see it; a code unit outside  *)
(* ASCII is written by its four hex digits ("D83D").                       *)
(***************************************************************************)
EXTENDS Integers, Sequences, FiniteSets, TLC

(***************************************************************************)
(* Characters                                                              *)
(***************************************************************************)
LowerLetters ==
  << "a","b","c","d","e","f","g","h","i","j","k","l","m",
     "n","o","p","q","r","s","t","u","v","w","x","y","z" >>

UpperLetters ==
  << "A","B","C","D","E","F","G","H","I","J","K","L","M",
     "N","O","P","Q","R","S","T","U","V","W","X","Y","Z" >>

Digits == {"0","1","2","3","4","5","6","7","8","9"}

Range(s) == { s[i] : i \in DOMAIN s }

LetterIndex(c, letters) == CHOOSE i \in DOMAIN letters : letters[i] = c

\* The upper-case letter of each lower-case letter, and the reverse.
UpperOf == [c \in Range(LowerLetters) |-> UpperLetters[LetterIndex(c, LowerLetters)]]

LowerOf == [c \in Range(UpperLetters) |-> LowerLetters[LetterIndex(c, UpperLetters)]]

IsLower(c) == c \in DOMAIN UpperOf

IsUpper(c) == c \in DOMAIN LowerOf

\* String.prototype.toUpperCase / toLowerCase on one code unit.
toUpperChar(c) == IF IsLower(c) THEN UpperOf[c] ELSE c

toLowerChar(c) == IF IsUpper(c) THEN LowerOf[c] ELSE c

\* The value of an expression, computed once: an operator below that reads an
\* argument at many places binds it with `x \in {argument}` first.
TheOne(set) == CHOOSE x \in set : TRUE

toUpperCase(text) == TheOne({ [i \in DOMAIN t |-> toUpperChar(t[i])] : t \in {text} })

toLowerCase(text) == TheOne({ [i \in DOMAIN t |-> toLowerChar(t[i])] : t \in {text} })

\* \w of a JavaScript regular expression: [A-Za-z0-9_].
IsWordChar(c) == IsLower(c) \/ IsUpper(c) \/ c \in Digits \/ c = "_"

(***************************************************************************)
(* String.prototype.replace with a global regular expression               *)
(***************************************************************************)
\* text.replace(/[set]/g, to): every code unit of the class becomes `to`.
ReplaceClass(text, set, to) ==
  TheOne({ [i \in DOMAIN t |-> IF t[i] \in set THEN to ELSE t[i]] : t \in {text} })

\* \b at the gap before position i (1-based) of text.
AtWordBoundary(text, i) ==
  LET before == i > 1 /\ i - 1 <= Len(text) /\ IsWordChar(text[i - 1])
      after  == i >= 1 /\ i <= Len(text) /\ IsWordChar(text[i])
  IN  before # after

\* The literal `word` matches at position i; ci is the i flag, wb wraps the
\* word in \b...\b.
MatchAt(text, i, word, ci, wb) ==
  /\ i + Len(word) - 1 <= Len(text)
  /\ \A k \in 1..Len(word) :
       IF ci THEN toLowerChar(text[i + k - 1]) = toLowerChar(word[k])
             ELSE text[i + k - 1] = word[k]
  /\ wb => AtWordBoundary(text, i) /\ AtWordBoundary(text, i + Len(word))

\* The replacement from position i on: the text up to the leftmost match at
\* or after i, the replacement, and the rest from the end of that match.
RECURSIVE ReplaceFrom(_, _, _, _, _, _)
ReplaceFrom(text, i, word, repl, ci, wb) ==
  LET matches == { j \in i..Len(text) : MatchAt(text, j, word, ci, wb) }
  IN  IF matches = {} THEN SubSeq(text, i, Len(text))
      ELSE TheOne({ SubSeq(text, i, m - 1) \o repl
                      \o ReplaceFrom(text, m + Len(word), word, repl, ci, wb)
                    : m \in { CHOOSE j \in matches : \A k \in matches : j <= k } })

\* text.replace(new RegExp(word, 'g' [+ 'i']), repl): the matches are found
\* left to right and do not overlap.
ReplaceAll(text, word, repl, ci, wb) ==
  TheOne({ ReplaceFrom(t, 1, word, repl, ci, wb) : t \in {text} })

\* text.replace(/n([aeiou])/g, 'ny$1'): a `y` after every n that a lower-case
\* vowel follows.
RECURSIVE InsertYFrom(_, _, _)
InsertYFrom(text, i, n) ==
  LET matches == { j \in i..(Len(text) - 1) :
                     text[j] = n /\ text[j + 1] \in {"a","e","i","o","u"} }
  IN  IF matches = {} THEN SubSeq(text, i, Len(text))
      ELSE TheOne({ SubSeq(text, i, m - 1) \o << n, "y", text[m + 1] >>
                      \o InsertYFrom(text, m + 2, n)
                    : m \in { CHOOSE j \in matches : \A k \in matches : j <= k } })

InsertY(text, n) == TheOne({ InsertYFrom(t, 1, n) : t \in {text} })

(***************************************************************************)
(* The transformation registry                                             *)
(***************************************************************************)
\* A faulty reverse: the first code unit is moved to the end, the others keep
\* their order.
reverseRotated(text) ==
  TheOne({ [i \in DOMAIN t |-> IF i = Len(t) THEN t[1] ELSE t[i + 1]] : t \in {text} })

reverse(text) == TheOne({ [i \in DOMAIN t |-> t[Len(t) + 1 - i]] : t \in {text} })

uppercase(text) == toUpperCase(text)

lowercase(text) == toLowerCase(text)

\* A faulty leetspeak: the classes hold the lower-case letter only.
leetspeakLowerOnly(text) ==
  LET r1 == ReplaceClass(text, {"a"}, "4")
      r2 == ReplaceClass(r1, {"e"}, "3")
      r3 == ReplaceClass(r2, {"i"}, "1")
      r4 == ReplaceClass(r3, {"o"}, "0")
      r5 == ReplaceClass(r4, {"s"}, "5")
  IN  ReplaceClass(r5, {"t"}, "7")

leetspeak(text) ==
  LET r1 == ReplaceClass(text, {"a","A"}, "4")
      r2 == ReplaceClass(r1, {"e","E"}, "3")
      r3 == ReplaceClass(r2, {"i","I"}, "1")
      r4 == ReplaceClass(r3, {"o","O"}, "0")
      r5 == ReplaceClass(r4, {"s","S"}, "5")
  IN  ReplaceClass(r5, {"t","T"}, "7")

\* A faulty spongebob: the alternation starts with upper case.
spongebobUpperFirst(text) ==
  TheOne({ [i \in DOMAIN t |->
              IF (i - 1) % 2 = 0 THEN toUpperChar(t[i]) ELSE toLowerChar(t[i])]
           : t \in {text} })

spongebob(text) ==
  TheOne({ [i \in DOMAIN t |->
              IF (i - 1) % 2 = 0 THEN toLowerChar(t[i]) ELSE toUpperChar(t[i])]
           : t \in {text} })

\* Object.entries(emojiMap): the entries in insertion order.
emojiMap ==
  << << <<"h","a","p","p","y">>,     <<"D83D","DE0A">> >>,
     << <<"s","a","d">>,             <<"D83D","DE22">> >>,
     << <<"l","o","v","e">>,         <<"2764","FE0F">> >>,
     << <<"f","i","r","e">>,         <<"D83D","DD25">> >>,
     << <<"c","o","o","l">>,         <<"D83D","DE0E">> >>,
     << <<"l","a","u","g","h">>,     <<"D83D","DE02">> >>,
     << <<"t","h","i","n","k">>,     <<"D83E","DD14">> >>,
     << <<"w","o","w">>,             <<"D83D","DE2E">> >>,
     << <<"r","o","c","k","e","t">>, <<"D83D","DE80">> >>,
     << <<"s","t","a","r">>,         <<"2B50">> >>,
     << <<"h","e","a","r","t">>,     <<"D83D","DC96">> >>,
     << <<"p","a","r","t","y">>,     <<"D83C","DF89">> >> >>

RECURSIVE emojifyFrom(_, _)
emojifyFrom(result, k) ==
  IF k > Len(emojiMap) THEN result
  ELSE LET word  == emojiMap[k][1]
           emoji == emojiMap[k][2]
       IN  emojifyFrom(ReplaceAll(result, word, word \o <<" ">> \o emoji, TRUE, FALSE),
                       k + 1)

emojify(text) == emojifyFrom(text, 1)

\* A faulty pirate: the rules without the i flag, so a capitalised source
\* word is left in place.
pirateCaseSensitive(text) ==
  LET r1 == ReplaceAll(text, <<"y","o","u">>, <<"y","e">>, FALSE, TRUE)
      r2 == ReplaceAll(r1, <<"m","y">>, <<"m","e">>, FALSE, TRUE)
      r3 == ReplaceAll(r2, <<"i","s">>, <<"b","e">>, FALSE, TRUE)
      r4 == ReplaceAll(r3, <<"t","h","e">>, <<"t","h","'">>, FALSE, TRUE)
      r5 == ReplaceAll(r4, <<"h","e","l","l","o">>, <<"a","h","o","y">>, FALSE, TRUE)
      r6 == ReplaceAll(r5, <<"f","r","i","e","n","d">>, <<"m","a","t","e","y">>, FALSE, TRUE)
  IN  r6 \o <<" ", "2620", "FE0F">>

pirate(text) ==
  LET r1 == ReplaceAll(text, <<"y","o","u">>, <<"y","e">>, TRUE, TRUE)
      r2 == ReplaceAll(r1, <<"m","y">>, <<"m","e">>, TRUE, TRUE)
      r3 == ReplaceAll(r2, <<"i","s">>, <<"b","e">>, TRUE, TRUE)
      r4 == ReplaceAll(r3, <<"t","h","e">>, <<"t","h","'">>, TRUE, TRUE)
      r5 == ReplaceAll(r4, <<"h","e","l","l","o">>, <<"a","h","o","y">>, TRUE, TRUE)
      r6 == ReplaceAll(r5, <<"f","r","i","e","n","d">>, <<"m","a","t","e","y">>, TRUE, TRUE)
  IN  r6 \o <<" ", "2620", "FE0F">>

uwu(text) ==
  LET r1 == ReplaceClass(text, {"r","l"}, "w")
      r2 == ReplaceClass(r1, {"R","L"}, "W")
      r3 == InsertY(r2, "n")
      r4 == InsertY(r3, "N")
      r5 == ReplaceAll(r4, <<"o","v","e">>, <<"u","v">>, FALSE, FALSE)
  IN  r5 \o <<" ","u","w","u">>

(***************************************************************************)
(* JavaScript values                                                       *)
(*                                                                         *)
(* t is the type tag: "undefined", "null", "boolean", "number", "string",  *)
(* "object" (a plain object: f maps each own key to its value), "array"    *)
(* (e is the sequence of elements), "boxed" (a wrapper object around the   *)
(* primitive v, as Object(v) builds) and "function" (a registry entry or a *)
(* member of Object.prototype, named by fn).                               *)
(***************************************************************************)
Undefined == [t |-> "undefined"]

Null == [t |-> "null"]

Bool(b) == [t |-> "boolean", v |-> b]

Num(n) == [t |-> "number", v |-> n]

Str(s) == [t |-> "string", v |-> s]

Obj(f) == [t |-> "object", f |-> f]

Arr(e) == [t |-> "array", e |-> e]

Boxed(v) == [t |-> "boxed", v |-> v]

Fn(name) == [t |-> "function", fn |-> name]

EmptyObject == Obj([k \in {} |-> Undefined])

\* f with the key k set to v.
WithKey(f, k, v) ==
  TheOne({ [x \in DOMAIN g \cup {k} |-> IF x = k THEN w ELSE g[x]] : g \in {f}, w \in {v} })

\* ToBoolean: what `x || y` and `if (x)` test.
Truthy(v) ==
  CASE v.t = "undefined" -> FALSE
    [] v.t = "null"      -> FALSE
    [] v.t = "boolean"   -> v.v
    [] v.t = "number"    -> v.v # 0
    [] v.t = "string"    -> Len(v.v) > 0
    [] OTHER             -> TRUE

\* a || b
OrElse(a, b) == IF Truthy(a) THEN a ELSE b

DigitChars == << "0","1","2","3","4","5","6","7","8","9" >>

RECURSIVE NatToChars(_)
NatToChars(n) ==
  IF n < 10 THEN << DigitChars[n + 1] >>
  ELSE NatToChars(n \div 10) \o << DigitChars[(n % 10) + 1] >>

IntToChars(n) == IF n < 0 THEN << "-" >> \o NatToChars(-n) ELSE NatToChars(n)

DigitValue(c) == (CHOOSE i \in DOMAIN DigitChars : DigitChars[i] = c) - 1

RECURSIVE CharsToNat(_)
CharsToNat(ds) ==
  IF Len(ds) = 0 THEN 0
  ELSE 10 * CharsToNat(SubSeq(ds, 1, Len(ds) - 1)) + DigitValue(ds[Len(ds)])

\* ToString of a value, as a property key or an array element is converted.
RECURSIVE ToStringChars(_)
RECURSIVE JoinElements(_, _)
ToStringChars(v) ==
  CASE v.t = "string"    -> v.v
    [] v.t = "number"    -> IntToChars(v.v)
    [] v.t = "boolean"   -> IF v.v THEN <<"t","r","u","e">> ELSE <<"f","a","l","s","e">>
    [] v.t = "null"      -> <<"n","u","l","l">>
    [] v.t = "undefined" -> <<"u","n","d","e","f","i","n","e","d">>
    [] v.t = "array"     -> JoinElements(v.e, 1)
    [] v.t = "boxed"     -> ToStringChars(v.v)
    [] OTHER             -> <<"[","o","b","j","e","c","t"," ","O","b","j","e","c","t","]">>

\* Array.prototype.join(','): null and undefined elements give the empty string.
JoinElements(e, i) ==
  IF i > Len(e) THEN << >>
  ELSE (IF e[i].t \in {"null", "undefined"} THEN << >> ELSE ToStringChars(e[i]))
       \o (IF i < Len(e) THEN << "," >> ELSE << >>)
       \o JoinElements(e, i + 1)

(***************************************************************************)
(* JSON.parse                                                              *)
(*                                                                         *)
(* A recursive-descent parser of the JSON grammar over code-unit           *)
(* sequences: literals, integers, strings with the two-character escapes,  *)
(* arrays and objects.  Fractions, exponents and \u escapes are not in the *)
(* alphabet of the bodies the model sends.  A parse gives                  *)
(* [ok, val, pos]: pos is the first position after the value.              *)
(***************************************************************************)
JsonWhitespace == {" ", "\t", "\n", "\r"}

ParseFail(i) == [ok |-> FALSE, val |-> Undefined, pos |-> i]

ParseOk(v, i) == [ok |-> TRUE, val |-> v, pos |-> i]

RECURSIVE SkipWs(_, _)
SkipWs(text, i) ==
  IF i <= Len(text) /\ text[i] \in JsonWhitespace THEN SkipWs(text, i + 1) ELSE i

HasPrefixAt(text, i, word) == MatchAt(text, i, word, FALSE, FALSE)

JsonEscapes ==
  [c \in {"\"", "\\", "/", "b", "f", "n", "r", "t"} |->
     CASE c = "n" -> "\n" [] c = "t" -> "\t" [] c = "r" -> "\r"
       [] c = "b" -> "0008" [] c = "f" -> "000C" [] OTHER -> c]

\* The characters of a string literal whose opening quote is before i.
RECURSIVE ParseStringFrom(_, _, _)
ParseStringFrom(text, i, acc) ==
  IF i > Len(text) THEN ParseFail(i)
  ELSE IF text[i] = "\"" THEN ParseOk(Str(acc), i + 1)
  ELSE IF text[i] \in {"\n", "\t", "\r"} THEN ParseFail(i)
  ELSE IF text[i] = "\\"
       THEN IF i + 1 <= Len(text) /\ text[i + 1] \in DOMAIN JsonEscapes
            THEN ParseStringFrom(text, i + 2, Append(acc, JsonEscapes[text[i + 1]]))
            ELSE ParseFail(i)
  ELSE ParseStringFrom(text, i + 1, Append(acc, text[i]))

RECURSIVE DigitsEnd(_, _)
DigitsEnd(text, i) ==
  IF i <= Len(text) /\ text[i] \in Digits THEN DigitsEnd(text, i + 1) ELSE i

\* -? ( 0 | [1-9][0-9]* )
ParseNumber(text, i) ==
  LET neg   == text[i] = "-"
      start == IF neg THEN i + 1 ELSE i
      stop  == DigitsEnd(text, start)
  IN  IF stop = start THEN ParseFail(i)
      ELSE IF text[start] = "0" /\ stop > start + 1 THEN ParseFail(start + 1)
      ELSE LET n == CharsToNat(SubSeq(text, start, stop - 1))
           IN  ParseOk(Num(IF neg THEN -n ELSE n), stop)

\* One operator parses the three mutually recursive productions, named by
\* kind: "value" (a JSON value at i0), "members" (the members of an object
\* after its '{', acc the properties so far) and "elements" (the elements of
\* an array after its '[', acc the elements so far).
RECURSIVE Parse(_, _, _, _)
Parse(kind, text, i0, acc) ==
  LET i == SkipWs(text, i0)
  IN  CASE kind = "value" ->
             IF i > Len(text) THEN ParseFail(i)
             ELSE CASE text[i] = "n" ->
                         IF HasPrefixAt(text, i, <<"n","u","l","l">>)
                         THEN ParseOk(Null, i + 4) ELSE ParseFail(i)
                    [] text[i] = "t" ->
                         IF HasPrefixAt(text, i, <<"t","r","u","e">>)
                         THEN ParseOk(Bool(TRUE), i + 4) ELSE ParseFail(i)
                    [] text[i] = "f" ->
                         IF HasPrefixAt(text, i, <<"f","a","l","s","e">>)
                         THEN ParseOk(Bool(FALSE), i + 5) ELSE ParseFail(i)
                    [] text[i] = "\"" -> ParseStringFrom(text, i + 1, << >>)
                    [] text[i] = "-" \/ text[i] \in Digits -> ParseNumber(text, i)
                    [] text[i] = "{" ->
                         LET j == SkipWs(text, i + 1)
                         IN  IF j <= Len(text) /\ text[j] = "}"
                             THEN ParseOk(EmptyObject, j + 1)
                             ELSE Parse("members", text, j, [k \in {} |-> Undefined])
                    [] text[i] = "[" ->
                         LET j == SkipWs(text, i + 1)
                         IN  IF j <= Len(text) /\ text[j] = "]"
                             THEN ParseOk(Arr(<< >>), j + 1)
                             ELSE Parse("elements", text, j, << >>)
                    [] OTHER -> ParseFail(i)
        \* "key" : value ( , "key" : value )* }  -- a repeated key keeps the
        \* last value.
        [] kind = "members" ->
             IF i > Len(text) \/ text[i] # "\"" THEN ParseFail(i)
             ELSE LET AfterValue(key, val) ==
                        LET e == SkipWs(text, val.pos)
                        IN  IF ~val.ok \/ e > Len(text) THEN ParseFail(e)
                            ELSE IF text[e] = "}"
                                 THEN ParseOk(Obj(WithKey(acc, key.val.v, val.val)), e + 1)
                            ELSE IF text[e] = ","
                                 THEN Parse("members", text, e + 1,
                                            WithKey(acc, key.val.v, val.val))
                            ELSE ParseFail(e)
                      AfterKey(key) ==
                        LET c == SkipWs(text, key.pos)
                        IN  IF ~key.ok \/ c > Len(text) \/ text[c] # ":" THEN ParseFail(c)
                            ELSE TheOne({ AfterValue(key, val) :
                                          val \in {Parse("value", text, c + 1, << >>)} })
                  IN  TheOne({ AfterKey(key) : key \in {ParseStringFrom(text, i + 1, << >>)} })
        \* value ( , value )* ]
        [] kind = "elements" ->
             LET AfterElement(val) ==
                   LET e == SkipWs(text, val.pos)
                   IN  IF ~val.ok \/ e > Len(text) THEN ParseFail(e)
                       ELSE IF text[e] = "]" THEN ParseOk(Arr(Append(acc, val.val)), e + 1)
                       ELSE IF text[e] = ","
                            THEN Parse("elements", text, e + 1, Append(acc, val.val))
                       ELSE ParseFail(e)
             IN  TheOne({ AfterElement(val) : val \in {Parse("value", text, i, << >>)} })

\* JSON.parse(text): ok is FALSE where JSON.parse throws a SyntaxError.
JSONParse(text) ==
  TheOne({ IF r.ok /\ SkipWs(text, r.pos) > Len(text) THEN r ELSE ParseFail(r.pos)
           : r \in {Parse("value", text, 1, << >>)} })

(***************************************************************************)
(* new URL(req.url, base).searchParams                                     *)
(*                                                                         *)
(* The request targets of the model are origin-form paths ("/..."), and    *)
(* hold no '%': percent-decoding has nothing to decode.                    *)
(***************************************************************************)
RECURSIVE IndexFrom(_, _, _)
\* The first position >= i of text that holds c, or 0.
IndexFrom(text, c, i) ==
  IF i > Len(text) THEN 0 ELSE IF text[i] = c THEN i ELSE IndexFrom(text, c, i + 1)

\* The pieces of text between the separators c.
RECURSIVE Split(_, _)
Split(text, c) ==
  LET k == IndexFrom(text, c, 1)
  IN  IF k = 0 THEN << text >>
      ELSE << SubSeq(text, 1, k - 1) >> \o Split(SubSeq(text, k + 1, Len(text)), c)

\* The query of a request target: after the first '?', before the fragment.
QueryOf(url) ==
  LET h   == IndexFrom(url, "#", 1)
      pre == IF h = 0 THEN url ELSE SubSeq(url, 1, h - 1)
      q   == IndexFrom(pre, "?", 1)
  IN  IF q = 0 THEN << >> ELSE SubSeq(pre, q + 1, Len(pre))

\* application/x-www-form-urlencoded decoding of one name or value.
FormDecode(text) == ReplaceClass(text, {"+"}, " ")

\* The (name, value) pairs of a query, in order; empty pieces are skipped and a
\* piece without '=' has the empty value.
RECURSIVE PairsFrom(_, _)
PairsFrom(pieces, i) ==
  IF i > Len(pieces) THEN << >>
  ELSE IF Len(pieces[i]) = 0 THEN PairsFrom(pieces, i + 1)
  ELSE LET p  == pieces[i]
           eq == IndexFrom(p, "=", 1)
           n  == IF eq = 0 THEN p ELSE SubSeq(p, 1, eq - 1)
           v  == IF eq = 0 THEN << >> ELSE SubSeq(p, eq + 1, Len(p))
       IN  << << FormDecode(n), FormDecode(v) >> >> \o PairsFrom(pieces, i + 1)

searchParams(url) == PairsFrom(Split(QueryOf(url), "&"), 1)

\* url.searchParams.get(name): the first value of that name, or null.
searchParamsGet(url, name) ==
  TheOne({ LET is == { i \in DOMAIN ps : ps[i][1] = name }
           IN  IF is = {} THEN Null
               ELSE Str(ps[CHOOSE i \in is : \A j \in is : i <= j][2])
           : ps \in {searchParams(url)} })

(***************************************************************************)
(* The registry object `transformations` and the lookup                    *)
(* transformations[transform]                                              *)
(***************************************************************************)
\* Object.keys(transformations): the own keys in insertion order.
transformationKeys ==
  << <<"r","e","v","e","r","s","e">>, <<"u","p","p","e","r","c","a","s","e">>, <<"l","o","w","e","r","c","a","s","e">>, <<"l","e","e","t","s","p","e","a","k">>,
     <<"s","p","o","n","g","e","b","o","b">>, <<"e","m","o","j","i","f","y">>, <<"p","i","r","a","t","e">>, <<"u","w","u">> >>

\* The registry is an object literal, so a key it does not own is looked up on
\* Object.prototype.  Its members, by what the lookup yields: the functions
\* are named by their key, __proto__ is the prototype object itself.
ObjectPrototypeKeys ==
  { <<"c","o","n","s","t","r","u","c","t","o","r">>, <<"t","o","S","t","r","i","n","g">>, <<"t","o","L","o","c","a","l","e","S","t","r","i","n","g">>, <<"v","a","l","u","e","O","f">>,
    <<"h","a","s","O","w","n","P","r","o","p","e","r","t","y">>, <<"i","s","P","r","o","t","o","t","y","p","e","O","f">>, <<"p","r","o","p","e","r","t","y","I","s","E","n","u","m","e","r","a","b","l","e">>,
    <<"_","_","p","r","o","t","o","_","_">> }

\* transformations[key]
LookupTransform(key) ==
  IF key \in Range(transformationKeys) THEN Fn(key)
  ELSE IF key = <<"_","_","p","r","o","t","o","_","_">> THEN EmptyObject
  ELSE IF key \in ObjectPrototypeKeys THEN Fn(key)
  ELSE Undefined

Threw == [threw |-> TRUE, val |-> Undefined]

Returned(v) == [threw |-> FALSE, val |-> v]

\* A registry function on a string.
ApplyRegistered(name, text) ==
  CASE name = <<"r","e","v","e","r","s","e">>   -> reverse(text)
    [] name = <<"u","p","p","e","r","c","a","s","e">> -> uppercase(text)
    [] name = <<"l","o","w","e","r","c","a","s","e">> -> lowercase(text)
    [] name = <<"l","e","e","t","s","p","e","a","k">> -> leetspeak(text)
    [] name = <<"s","p","o","n","g","e","b","o","b">> -> spongebob(text)
    [] name = <<"e","m","o","j","i","f","y">>   -> emojify(text)
    [] name = <<"p","i","r","a","t","e">>    -> pirate(text)
    [] name = <<"u","w","u">>       -> uwu(text)

\* transformFn(message): the call of a looked-up value as a plain function
\* (`this` is undefined in the module's strict code).  Every registry function
\* starts by calling a String method on its argument, which only a string has.
\* Of the inherited functions, Object (constructor) wraps a primitive,
\* toString answers for the undefined `this`, isPrototypeOf answers false for
\* a non-object argument, and the others convert `this` to an object first,
\* which throws a TypeError.  Calling a non-function throws a TypeError.
CallTransform(fnv, message) ==
  IF fnv.t # "function" THEN Threw
  ELSE IF fnv.fn \in Range(transformationKeys)
       THEN IF message.t = "string"
            THEN Returned(Str(ApplyRegistered(fnv.fn, message.v)))
            ELSE Threw
  ELSE IF fnv.fn = <<"c","o","n","s","t","r","u","c","t","o","r">>
       THEN Returned(IF message.t \in {"string", "number", "boolean"}
                     THEN Boxed(message) ELSE message)
  ELSE IF fnv.fn = <<"t","o","S","t","r","i","n","g">>
       THEN Returned(Str(<<"[","o","b","j","e","c","t"," ","U","n","d","e","f","i","n","e","d","]">>))
  ELSE IF fnv.fn = <<"i","s","P","r","o","t","o","t","y","p","e","O","f">> THEN Returned(Bool(FALSE))
  ELSE Threw

\* transformFn ? transformFn(message) : message
ApplyTransform(message, transform) ==
  LET transformFn == LookupTransform(ToStringChars(transform))
  IN  IF Truthy(transformFn) THEN CallTransform(transformFn, message)
      ELSE Returned(message)

DefaultMessage == <<"H","e","l","l","o"," ","f","r","o","m"," ","F","u","n"," ","T","e","x","t"," ","T","r","a","n","s","f","o","r","m","e","r","!">>

DefaultTransform == <<"e","m","o","j","i","f","y">>

\* input.key for the keys `message` and `transform`, which no prototype
\* defines: the own property of an object, undefined on anything else.
GetProp(input, key) ==
  IF input.t = "object" /\ key \in DOMAIN input.f THEN input.f[key] ELSE Undefined

\* Reading a property of null or undefined throws a TypeError.
CanReadProps(input) == input.t \notin {"null", "undefined"}

(***************************************************************************)
(* JSON serialisation (JSON.stringify, and the dataset's storage of an     *)
(* item).  A JSON text is written here as the JSON value it denotes: an    *)
(* object's properties whose value is undefined are left out, wrapper      *)
(* objects are written as their primitive.                                 *)
(***************************************************************************)
RECURSIVE ToJSON(_)
ToJSON(v) ==
  CASE v.t = "boxed"  -> v.v
    [] v.t = "array"  ->
         Arr([i \in DOMAIN v.e |->
                IF v.e[i].t = "undefined" THEN Null ELSE ToJSON(v.e[i])])
    [] v.t = "object" ->
         LET keep == { k \in DOMAIN v.f : v.f[k].t \notin {"undefined", "function"} }
         IN  Obj([k \in keep |-> ToJSON(v.f[k])])
    [] OTHER          -> v

(***************************************************************************)
(* The pipeline both modes run: defaults, transformation, result record    *)
(***************************************************************************)
kMessage == <<"m","e","s","s","a","g","e">>

kTransform == <<"t","r","a","n","s","f","o","r","m">>

kOriginal == <<"o","r","i","g","i","n","a","l">>

kTransformed == <<"t","r","a","n","s","f","o","r","m","e","d">>

kTransformation == <<"t","r","a","n","s","f","o","r","m","a","t","i","o","n">>

kAvailableTransforms == <<"a","v","a","i","l","a","b","l","e","T","r","a","n","s","f","o","r","m","s">>

kTimestamp == <<"t","i","m","e","s","t","a","m","p">>

kStatus == <<"s","t","a","t","u","s">>

kProcessedBy == <<"p","r","o","c","e","s","s","e","d","B","y">>

kMethod == <<"m","e","t","h","o","d">>

kUrl == <<"u","r","l">>

kError == <<"e","r","r","o","r">>

\* An object from its keys and a record-like function on them.
Object1(k1, v1) == Obj([k \in {k1} |-> v1])

Object2(k1, v1, k2, v2) == Obj([k \in {k1, k2} |-> IF k = k1 THEN v1 ELSE v2])

\* Three decimal digits of a millisecond count below 1000.
Pad3(ms) ==
  << DigitChars[((ms \div 100) % 10) + 1], DigitChars[((ms \div 10) % 10) + 1],
     DigitChars[(ms % 10) + 1] >>

\* new Date().toISOString() at `ms` milliseconds into the run, which starts at
\* the epoch and lasts less than a second.
toISOString(ms) == <<"1","9","7","0","-","0","1","-","0","1","T","0","0",":","0","0",":","0","0",".">> \o Pad3(ms) \o <<"Z">>

StandbyProcessedBy == << "F","u","n"," ","T","e","x","t"," ","T","r","a","n","s","f","o","r","m","e","r"," ","D83C","DFA8" >>

StandardProcessedBy == StandbyProcessedBy \o <<" ","(","S","t","a","n","d","a","r","d"," ","M","o","d","e",")">>

\* const message = input.message || '...'; const transform = input.transform || 'emojify'
MessageOf(input) == OrElse(GetProp(input, kMessage), Str(DefaultMessage))

TransformOf(input) == OrElse(GetProp(input, kTransform), Str(DefaultTransform))

\* The fields of the result record common to both modes.
ResultFields(message, transformed, transform, ms, by) ==
  [k \in {kOriginal, kTransformed, kTransformation, kAvailableTransforms,
          kTimestamp, kStatus, kProcessedBy} |->
     CASE k = kOriginal            -> message
       [] k = kTransformed         -> transformed
       [] k = kTransformation      -> transform
       [] k = kAvailableTransforms ->
            Arr([i \in DOMAIN transformationKeys |-> Str(transformationKeys[i])])
       [] k = kTimestamp           -> Str(toISOString(ms))
       [] k = kStatus              -> Str(<<"s","u","c","c","e","s","s">>)
       [] k = kProcessedBy         -> Str(by)]

(***************************************************************************)
(* Errors and responses                                                    *)
(***************************************************************************)
NoError == [thrown |-> FALSE, message |-> << >>]

\* An Error instance with its message.  The wording of an engine's TypeError
\* is not modelled: its message is its name.
ErrorOf(msg) == [thrown |-> TRUE, message |-> msg]

TypeError == ErrorOf(<<"T","y","p","e","E","r","r","o","r">>)

RequestAborted == ErrorOf(<<"a","b","o","r","t","e","d">>)

PushDataFailed == ErrorOf(<<"p","u","s","h","D","a","t","a"," ","f","a","i","l","e","d">>)

GetInputFailed == ErrorOf(<<"g","e","t","I","n","p","u","t"," ","f","a","i","l","e","d">>)

NoResponse == [status |-> 0, contentType |-> "", body |-> Undefined]

ReadyResponse ==
  [status |-> 200, contentType |-> "text/plain", body |-> Str(<<"R","e","a","d","y","!">> \o <<"\n">>)]

\* res.end(JSON.stringify(result, null, 2)) after writeHead(200, json)
ResultResponse(result) ==
  [status |-> 200, contentType |-> "application/json", body |-> ToJSON(result)]

\* The catch block's reply: { error: 'Internal server error', message: error.message }
ErrorResponse(error) ==
  [status |-> 500, contentType |-> "application/json",
   body |-> Object2(kError, Str(<<"I","n","t","e","r","n","a","l"," ","s","e","r","v","e","r"," ","e","r","r","o","r">>), kMessage, Str(error.message))]

(***************************************************************************)
(* Standby requests                                                        *)
(***************************************************************************)
GET == <<"G","E","T">>

POST == <<"P","O","S","T">>

PUT == <<"P","U","T">>

PATCH == <<"P","A","T","C","H">>

DELETE == <<"D","E","L","E","T","E">>

Methods == {GET, POST, PUT, PATCH, DELETE}

\* req.headers['x-apify-container-server-readiness-probe']: undefined when the
\* header is absent, else its value (which may be empty).
ProbeHeaders == {Undefined, Str(<< >>), Str(<<"1">>)}

Urls ==
  { <<"/">>, <<"/","?","m","e","s","s","a","g","e","=","h","i">>, <<"/","?","t","r","a","n","s","f","o","r","m","=","r","e","v","e","r","s","e">>,
    <<"/","?","m","e","s","s","a","g","e","=","h","i","&","t","r","a","n","s","f","o","r","m","=","r","e","v","e","r","s","e">>, <<"/","?","m","e","s","s","a","g","e","=","a","+","b","&","t","r","a","n","s","f","o","r","m","=","n","o","p","e">> }

Bodies ==
  { << >>, <<"s","o"," ","c","o","o","l">>, <<"1","2","3">>, <<"n","u","l","l">>, <<"t","r","u","e">>, <<"\"","h","i","\"">>, <<"{","b","a","d">>,
    <<"{","\"","m","e","s","s","a","g","e","\"",":","\"","y","o","\"",",","\"","t","r","a","n","s","f","o","r","m","\"",":","\"","u","p","p","e","r","c","a","s","e","\"","}">>,
    <<"{","\"","m","e","s","s","a","g","e","\"",":","\"","y","o","\"","}">>,
    <<"{","\"","t","r","a","n","s","f","o","r","m","\"",":","\"","r","e","v","e","r","s","e","\"","}">>,
    <<"{","\"","t","r","a","n","s","f","o","r","m","\"",":","\"","v","a","l","u","e","O","f","\"","}">>,
    <<"{","\"","t","r","a","n","s","f","o","r","m","\"",":","\"","t","o","S","t","r","i","n","g","\"","}">>,
    <<"{","\"","m","e","s","s","a","g","e","\"",":","7","}">> }

AllRequests ==
  [method : Methods, probe : ProbeHeaders, url : Urls, body : Bodies]

\* The requests of the full-program specification, one for each path through
\* the handler: a probe, a request without a body (its input in the query) and
\* a request whose body is read and parses to null.
Requests ==
  { [method |-> GET, probe |-> Str(<<"1">>), url |-> <<"/">>, body |-> << >>],
    [method |-> GET, probe |-> Undefined, url |-> <<"/","?","m","e","s","s","a","g","e","=","h","i","&","t","r","a","n","s","f","o","r","m","=","r","e","v","e","r","s","e">>,
     body |-> << >>],
    [method |-> PUT, probe |-> Undefined, url |-> <<"/">>, body |-> <<"n","u","l","l">>] }

NoRequest == [method |-> << >>, probe |-> Undefined, url |-> << >>, body |-> << >>]

(***************************************************************************)
(* The standby handler's synchronous stretches                             *)
(***************************************************************************)
\* A faulty parse: a body that is not JSON is dropped (the catch clause leaves
\* the input empty) instead of becoming the message.
ParseInputNoFallback(req, body) ==
  IF Len(body) > 0
  THEN TheOne({ IF p.ok THEN p.val ELSE EmptyObject : p \in {JSONParse(body)} })
  ELSE IF Len(req.url) > 0
  THEN TheOne({ IF Truthy(message)
                THEN Object2(kMessage, message, kTransform, OrElse(transform, Undefined))
                ELSE EmptyObject
                : message \in {searchParamsGet(req.url, kMessage)},
                  transform \in {searchParamsGet(req.url, kTransform)} })
  ELSE EmptyObject

\* The parse of the input from the body, or from the query parameters.
ParseInput(req, body) ==
  IF Len(body) > 0
  THEN TheOne({ IF p.ok THEN p.val ELSE Object1(kMessage, Str(body))
                : p \in {JSONParse(body)} })
  ELSE IF Len(req.url) > 0
  THEN TheOne({ IF Truthy(message)
                THEN Object2(kMessage, message, kTransform, OrElse(transform, Undefined))
                ELSE EmptyObject
                : message \in {searchParamsGet(req.url, kMessage)},
                  transform \in {searchParamsGet(req.url, kTransform)} })
  ELSE EmptyObject

\* What a stretch of the pipeline yields: a result record, or a thrown
\* TypeError.
Thrown == [threw |-> TRUE, result |-> Undefined]

Produced(result) == [threw |-> FALSE, result |-> result]

\* The result record of a standby request: the common fields, then method and
\* url as the request gave them.
StandbyResult(message, transformed, transform, ms, req) ==
  Obj(WithKey(WithKey(ResultFields(message, transformed, transform, ms,
                                   StandbyProcessedBy),
                      kMethod, Str(req.method)),
              kUrl, Str(req.url)))

\* The result record around the outcome of the transformation.
StandbyAssemble(message, transformed, transform, ms, req) ==
  IF transformed.threw THEN Thrown
  ELSE Produced(StandbyResult(message, transformed.val, transform, ms, req))

\* The transformation and the result record.
StandbyTransform(message, transform, ms, req) ==
  TheOne({ StandbyAssemble(message, transformed, transform, ms, req)
           : transformed \in {ApplyTransform(message, transform)} })

\* The defaults, the transformation and the result record for a parsed input.
StandbyOnInput(input, ms, req) ==
  IF ~CanReadProps(input) THEN Thrown
  ELSE TheOne({ StandbyTransform(message, transform, ms, req)
                : message \in {MessageOf(input)}, transform \in {TransformOf(input)} })

\* From the parse of the input to the result record, at time ms: the record,
\* or the TypeError thrown on the way.
StandbyPipeline(req, body, ms) ==
  TheOne({ StandbyOnInput(input, ms, req) : input \in {ParseInput(req, body)} })

\* A handler slot: pc is "idle" (no connection), "reading" (awaiting the end
\* of the body), "pushing" (awaiting Actor.pushData, not yet stored), "stored"
\* (the dataset holds the record, the await has not resumed) or "done" (the
\* response is written).  rest is what the client has still to send, pushes
\* counts the calls of Actor.pushData, errorsBefore is the number of errors
\* the process had logged when the request arrived.
IdleHandler ==
  [pc |-> "idle", req |-> NoRequest, body |-> << >>, rest |-> << >>,
   result |-> Undefined, error |-> NoError, response |-> NoResponse, pushes |-> 0,
   errorsBefore |-> 0]

\* A faulty catch block: the error is logged and the handler ends, but no
\* response is written.
CatchNoResponse(hrec, error) == [hrec EXCEPT !.pc = "done", !.error = error]

\* The catch block of the handler.
Catch(hrec, error) ==
  [hrec EXCEPT !.pc = "done", !.error = error, !.response = ErrorResponse(error)]

\* The handler at the await of Actor.pushData, or in its catch block.
AwaitPush(hrec, out) ==
  IF out.threw THEN Catch(hrec, TypeError)
  ELSE [hrec EXCEPT !.pc = "pushing", !.result = out.result, !.pushes = @ + 1]

\* The handler from the end of the body read to the await of Actor.pushData.
AfterBody(hrec, ms) ==
  TheOne({ AwaitPush(hrec, out) : out \in {StandbyPipeline(hrec.req, hrec.body, ms)} })

\* if (req.method === 'POST' || req.method === 'PUT')
ReadsBody(req) == req.method = POST \/ req.method = PUT

\* if (req.headers['x-apify-container-server-readiness-probe'])
IsProbe(req) == Truthy(req.probe)

\* A slot holding a request whose handler has not started.
Connection(req, logged) == [IdleHandler EXCEPT !.req = req, !.errorsBefore = logged]

\* The handler from its call to its first await (or to its end).
OnRequest(req, ms, logged) ==
  IF IsProbe(req)
  THEN [Connection(req, logged) EXCEPT !.pc = "done", !.response = ReadyResponse]
  ELSE IF ReadsBody(req)
  THEN [Connection(req, logged) EXCEPT !.pc = "reading", !.rest = req.body]
  ELSE AfterBody(Connection(req, logged), ms)

(***************************************************************************)
(* State                                                                   *)
(***************************************************************************)
MaxHandlers == 2

MaxRequests == 2

MaxClock == 1

Handlers == 1..MaxHandlers

\* Actor.config.get('metaOrigin'): undefined when APIFY_META_ORIGIN is unset.
Origins == {Undefined, Str(<<"S","T","A","N","D","B","Y">>), Str(<<"s","t","a","n","d","b","y">>), Str(<<"A","P","I">>)}

\* What Actor.getInput() resolves to: null without an input, else the input's
\* JSON value.
StdInputs ==
  { Null, EmptyObject,
    Object2(kMessage, Str(<<"y","o">>), kTransform, Str(<<"u","p","p","e","r","c","a","s","e">>)),
    Object1(kMessage, Str(<<"T","h","i","s"," ","i","s"," ","a"," ","c","o","o","l"," ","a","n","d"," ","h","a","p","p","y"," ","m","e","s","s","a","g","e","!">>)),
    Object1(kTransform, Str(<<"r","e","v","e","r","s","e">>)),
    Object1(kTransform, Str(<<"n","o","p","e">>)),
    Object1(kTransform, Str(<<"v","a","l","u","e","O","f">>)),
    Object2(kMessage, Str(<<"y","o">>), kTransform, Str(<<"t","o","S","t","r","i","n","g">>)),
    Object1(kMessage, Num(7)),
    Object2(kMessage, Str(<< >>), kTransform, Str(<<"r","e","v","e","r","s","e">>)) }

VARIABLES
  mainPc,      \* the module's top-level code: "init", "serving", "getInput",
               \* "pushing", "stored", "exiting", "exited"
  metaOrigin,  \* Actor.config.get('metaOrigin')
  listening,   \* the HTTP server is bound
  handlers,    \* the handler slots of the server
  accepted,    \* number of requests accepted so far
  dataset,     \* the Actor's default dataset: the items pushed, in order
  now,         \* milliseconds since the start of the run
  std,         \* the standard run: the input got, the result, the error thrown,
               \* and the numbers of pipeline runs, of Actor.pushData calls and
               \* of Actor.exit calls
  exitCode,    \* "running", or the exit code of the process
  errorsLogged,\* number of console.error lines written by the catch blocks
  builder,     \* the agent-builder actor (src/main.ts): its run, see BuilderStart
  pub          \* the publish script (scripts/publish.ts): its run, see PubStart

vars ==
  << mainPc, metaOrigin, listening, handlers, accepted, dataset, now, std, exitCode,
     errorsLogged, builder, pub >>

\* The agent-builder run before Actor.init(): pc is its position ("init",
\* "getInput", "agent" (reading the agent's message stream), "verify",
\* "install", "publish", "built" (buildActor has returned), "pushError" (the
\* top-level catch block), "exiting", "exited"); claudeEnv and apifyEnv are
\* the environment variables CLAUDE_CODE_OAUTH_TOKEN and APIFY_TOKEN; files
\* is the set of required files present in the work directory; messages
\* counts the agent's messages read and agentResult is the subtype of its
\* last result message ("none", "success", "error"); steps is the
\* sequence of checks and commands buildActor has executed; result is what
\* buildActor returned, error the error the top-level catch took; pushed is the
\* sequence of records given to Actor.pushData.
BuilderStart ==
  [pc |-> "init", claudeEnv |-> Undefined, apifyEnv |-> Undefined, input |-> Undefined,
   agentStarted |-> FALSE, messages |-> 0, agentResult |-> "none", files |-> {},
   logs |-> << >>,
   steps |-> << >>, result |-> Undefined, error |-> [msg |-> "", arg |-> ""],
   pushed |-> << >>, exitCode |-> "running"]

\* The publish script before main() runs: argv is process.argv.slice(2) and
\* cmd what the command line was meant to say; envToken is APIFY_TOKEN;
\* config is the state of .actor/actor.json in the directory; remoteActors
\* and remoteVersions are the actors of the account and the versions each of
\* them has; pc is the position ("start", "listActors", "listVersions",
\* "update", "createVersion", "createActor", "build", "exited"); directory,
\* finalName, finalVersion, buildTag and isPublic are the values publish()
\* works with; buildWait is the wait passed to the build call; fsOps is the
\* sequence of file-system calls and calls the sequence of API calls made; error is the message main().catch printed and
\* exit the process's exit status.
PubStart ==
  [pc |-> "start", argv |-> << >>, cmd |-> Undefined, envToken |-> Undefined,
   config |-> "absent", remoteActors |-> {}, remoteVersions |-> {},
   directory |-> << >>, finalName |-> << >>, finalVersion |-> << >>,
   buildTag |-> << >>, isPublic |-> FALSE, actorFound |-> FALSE,
   fsOps |-> << >>, calls |-> << >>, buildWait |-> 0, status |-> "", error |-> "", exit |-> "running"]

StdStart ==
  [input |-> Undefined, result |-> Undefined, error |-> NoError, pushes |-> 0,
   runs |-> 0, exits |-> 0]

Init ==
  /\ mainPc = "init"
  /\ metaOrigin \in Origins
  /\ listening = FALSE
  /\ handlers = [h \in Handlers |-> IdleHandler]
  /\ accepted = 0
  /\ dataset = << >>
  /\ now = 0
  /\ std = StdStart
  /\ exitCode = "running"
  /\ errorsLogged = 0
  /\ builder = BuilderStart
  /\ pub = PubStart

(***************************************************************************)
(* Mode selection                                                          *)
(***************************************************************************)
\* A faulty mode check: the value is compared without regard to letter case.
IsStandbyAnyCase(origin) ==
  origin.t = "string" /\ toUpperCase(origin.v) = <<"S","T","A","N","D","B","Y">>

\* Actor.config.get('metaOrigin') === 'STANDBY'
IsStandby(origin) == origin = Str(<<"S","T","A","N","D","B","Y">>)

\* await Actor.init(), then the mode check; in standby mode the server is
\* created and bound, and the module awaits a promise that never settles.
ActorInit ==
  /\ mainPc = "init"
  /\ IF IsStandby(metaOrigin)
     THEN mainPc' = "serving" /\ listening' = TRUE
     ELSE mainPc' = "getInput" /\ listening' = FALSE
  /\ UNCHANGED << metaOrigin, handlers, accepted, dataset, now, std, exitCode,
                  errorsLogged, builder, pub >>

\* Time passes.
Tick ==
  /\ now < MaxClock
  /\ exitCode = "running"
  /\ now' = now + 1
  /\ UNCHANGED << mainPc, metaOrigin, listening, handlers, accepted, dataset, std,
                  exitCode, errorsLogged, builder, pub >>

(***************************************************************************)
(* Standby mode: the server's events                                       *)
(***************************************************************************)
\* The slot h becomes hrec; a handler that entered its catch block has logged
\* the error.
SetHandler(h, hrec) ==
  /\ handlers' = [handlers EXCEPT ![h] = hrec]
  /\ errorsLogged' = IF hrec.error.thrown /\ ~handlers[h].error.thrown
                     THEN errorsLogged + 1 ELSE errorsLogged

StandbyFrame ==
  UNCHANGED << mainPc, metaOrigin, listening, now, std, exitCode, builder, pub >>

\* The server's free slot of a new connection: the lowest one.
FreeSlot(h) ==
  /\ handlers[h].pc = "idle"
  /\ \A g \in Handlers : g < h => handlers[g].pc # "idle"

\* A request arrives and its handler runs to its first await.
Arrive(h, req) ==
  /\ mainPc = "serving" /\ listening
  /\ FreeSlot(h)
  /\ SetHandler(h, OnRequest(req, now, errorsLogged))
  /\ accepted' = accepted + 1
  /\ UNCHANGED dataset
  /\ StandbyFrame

Accept(h) ==
  /\ accepted < MaxRequests
  /\ \E req \in Requests : Arrive(h, req)

\* A faulty handler: the chunks are collected in a variable all handlers
\* share, so a chunk reaches the body of every handler that is reading.
OnDataShared(h) ==
  /\ handlers[h].pc = "reading"
  /\ \E k \in 1..Len(handlers[h].rest) :
       /\ handlers' = [g \in Handlers |->
                         IF g = h
                         THEN [handlers[h] EXCEPT
                                 !.body = @ \o SubSeq(handlers[h].rest, 1, k),
                                 !.rest = SubSeq(@, k + 1, Len(@))]
                         ELSE IF handlers[g].pc = "reading"
                         THEN [handlers[g] EXCEPT
                                 !.body = @ \o SubSeq(handlers[h].rest, 1, k)]
                         ELSE handlers[g]]
       /\ UNCHANGED errorsLogged
  /\ UNCHANGED << accepted, dataset >>
  /\ StandbyFrame

\* req.on('data'): the next chunk of the body, of any size.
OnData(h) ==
  /\ handlers[h].pc = "reading"
  /\ \E k \in 1..Len(handlers[h].rest) :
       SetHandler(h, [handlers[h] EXCEPT
                        !.body = @ \o SubSeq(handlers[h].rest, 1, k),
                        !.rest = SubSeq(@, k + 1, Len(@))])
  /\ UNCHANGED << accepted, dataset >>
  /\ StandbyFrame

\* req.on('end'): the body is complete and the handler goes on.
OnEnd(h) ==
  /\ handlers[h].pc = "reading"
  /\ Len(handlers[h].rest) = 0
  /\ SetHandler(h, AfterBody(handlers[h], now))
  /\ UNCHANGED << accepted, dataset >>
  /\ StandbyFrame

\* req.on('error'): the body read is rejected.
OnError(h) ==
  /\ handlers[h].pc = "reading"
  /\ SetHandler(h, Catch(handlers[h], RequestAborted))
  /\ UNCHANGED << accepted, dataset >>
  /\ StandbyFrame

\* The dataset stores the item of a pending Actor.pushData.
PushStored(h) ==
  /\ handlers[h].pc = "pushing"
  /\ dataset' = Append(dataset, ToJSON(handlers[h].result))
  /\ SetHandler(h, [handlers[h] EXCEPT !.pc = "stored"])
  /\ UNCHANGED accepted
  /\ StandbyFrame

\* A faulty handler: the 200 response is written when Actor.pushData is
\* called, without awaiting it.
PushResolvedUnawaited(h) ==
  /\ handlers[h].pc = "pushing"
  /\ SetHandler(h, [handlers[h] EXCEPT
                      !.pc = "done", !.response = ResultResponse(handlers[h].result)])
  /\ UNCHANGED << accepted, dataset >>
  /\ StandbyFrame

\* await Actor.pushData(result) resumes: the 200 response is written.
PushResolved(h) ==
  /\ handlers[h].pc = "stored"
  /\ SetHandler(h, [handlers[h] EXCEPT
                      !.pc = "done", !.response = ResultResponse(handlers[h].result)])
  /\ UNCHANGED << accepted, dataset >>
  /\ StandbyFrame

\* A faulty handler: a rejected Actor.pushData is called again.
PushRejectedRetries(h) ==
  /\ handlers[h].pc = "pushing"
  /\ SetHandler(h, [handlers[h] EXCEPT !.pushes = @ + 1])
  /\ UNCHANGED << accepted, dataset >>
  /\ StandbyFrame

\* Actor.pushData rejects: nothing was stored.
PushRejected(h) ==
  /\ handlers[h].pc = "pushing"
  /\ SetHandler(h, Catch(handlers[h], PushDataFailed))
  /\ UNCHANGED << accepted, dataset >>
  /\ StandbyFrame

\* The response has been sent and the connection's slot is free again.
Close(h) ==
  /\ handlers[h].pc = "done"
  /\ SetHandler(h, IdleHandler)
  /\ UNCHANGED << accepted, dataset >>
  /\ StandbyFrame

(***************************************************************************)
(* Standard mode                                                           *)
(***************************************************************************)
StdFrame == UNCHANGED << metaOrigin, listening, handlers, accepted, now, builder, pub >>

\* The result record around the outcome of the transformation.
StandardAssemble(message, transformed, transform, ms) ==
  IF transformed.threw THEN Thrown
  ELSE Produced(Obj(ResultFields(message, transformed.val, transform, ms,
                                 StandardProcessedBy)))

\* The transformation and the result record of the standard run.
StandardTransform(message, transform, ms) ==
  TheOne({ StandardAssemble(message, transformed, transform, ms)
           : transformed \in {ApplyTransform(message, transform)} })

\* const input = (await Actor.getInput()) || {}, then the defaults.
StandardOnInput(input, ms) ==
  TheOne({ StandardTransform(message, transform, ms)
           : message \in {MessageOf(input)}, transform \in {TransformOf(input)} })

\* From the input to the result record (or the TypeError thrown on the way).
StandardPipeline(got, ms) == StandardOnInput(OrElse(got, EmptyObject), ms)

\* The standard run after its synchronous stretch: in the finally block with
\* the error thrown, or at the await of Actor.pushData.
StdAfter(got, out) ==
  IF out.threw
  THEN /\ std' = [std EXCEPT !.input = got, !.error = TypeError, !.runs = @ + 1]
       /\ mainPc' = "exiting"
       /\ errorsLogged' = errorsLogged + 1
  ELSE /\ std' = [std EXCEPT !.input = got, !.result = out.result, !.runs = @ + 1,
                             !.pushes = @ + 1]
       /\ mainPc' = "pushing"
       /\ UNCHANGED errorsLogged

\* await Actor.getInput() resolves and the run goes on to the await of
\* Actor.pushData, or throws into the catch block, which rethrows: the
\* finally block then awaits Actor.exit().
GetInput ==
  /\ mainPc = "getInput"
  /\ \E got \in StdInputs : \E out \in {StandardPipeline(got, now)} : StdAfter(got, out)
  /\ UNCHANGED << dataset, exitCode >>
  /\ StdFrame

\* await Actor.getInput() rejects.
GetInputRejected ==
  /\ mainPc = "getInput"
  /\ std' = [std EXCEPT !.error = GetInputFailed]
  /\ mainPc' = "exiting"
  /\ errorsLogged' = errorsLogged + 1
  /\ UNCHANGED << dataset, exitCode >>
  /\ StdFrame

\* The dataset stores the item of the pending Actor.pushData.
StdPushStored ==
  /\ mainPc = "pushing"
  /\ dataset' = Append(dataset, ToJSON(std.result))
  /\ mainPc' = "stored"
  /\ UNCHANGED << std, exitCode, errorsLogged >>
  /\ StdFrame

\* await Actor.pushData(result) resumes: the try block ends, the finally
\* block awaits Actor.exit().
StdPushResolved ==
  /\ mainPc = "stored"
  /\ mainPc' = "exiting"
  /\ UNCHANGED << std, dataset, exitCode, errorsLogged >>
  /\ StdFrame

\* A faulty run without the finally block: the rejection of Actor.pushData is
\* rethrown and ends the process, Actor.exit() not called.
StdPushRejectedNoFinally ==
  /\ mainPc = "pushing"
  /\ std' = [std EXCEPT !.error = PushDataFailed]
  /\ mainPc' = "exited"
  /\ exitCode' = "1"
  /\ errorsLogged' = errorsLogged + 1
  /\ UNCHANGED dataset
  /\ StdFrame

\* await Actor.pushData(result) rejects: nothing was stored.
StdPushRejected ==
  /\ mainPc = "pushing"
  /\ std' = [std EXCEPT !.error = PushDataFailed]
  /\ mainPc' = "exiting"
  /\ errorsLogged' = errorsLogged + 1
  /\ UNCHANGED << dataset, exitCode >>
  /\ StdFrame

\* The exit code Actor.exit() ends the process with: it is called without
\* options, so with the SDK's default exit code.
ActorExitCode(error) == "0"

\* finally { await Actor.exit() }: Actor.exit() ends the process itself
\* (process.exit), so the await never resumes and an error the catch block
\* rethrew is never delivered.
ActorExit ==
  /\ mainPc = "exiting"
  /\ mainPc' = "exited"
  /\ exitCode' = ActorExitCode(std.error)
  /\ std' = [std EXCEPT !.exits = @ + 1]
  /\ UNCHANGED << dataset, errorsLogged >>
  /\ StdFrame

(***************************************************************************)
(* Specifications                                                          *)
(***************************************************************************)
HandlerStep ==
  \E h \in Handlers :
    \/ OnData(h)
    \/ OnEnd(h)
    \/ OnError(h)
    \/ PushStored(h)
    \/ PushResolved(h)
    \/ PushRejected(h)
    \/ Close(h)

Next ==
  \/ ActorInit
  \/ Tick
  \/ \E h \in Handlers : Accept(h)
  \/ HandlerStep
  \/ GetInput
  \/ GetInputRejected
  \/ StdPushStored
  \/ StdPushResolved
  \/ StdPushRejected
  \/ ActorExit

\* The whole program, from process start.
Spec == Init /\ [][Next]_vars

\* The standard run: every process start outside standby mode.  An awaited
\* SDK call settles (it resolves or rejects), so the run is never stuck at an
\* await.
InitStandard == Init /\ ~IsStandby(metaOrigin)

StandardStep ==
  \/ GetInput
  \/ GetInputRejected
  \/ StdPushStored
  \/ StdPushResolved
  \/ StdPushRejected
  \/ ActorExit

NextStandard ==
  \/ ActorInit
  \/ Tick
  \/ StandardStep

SpecStandard ==
  InitStandard /\ [][NextStandard]_vars /\ WF_vars(ActorInit) /\ WF_vars(StandardStep)

\* One standby request, of any kind, on a server that has just started.
InitRequest ==
  /\ mainPc = "serving"
  /\ metaOrigin = Str(<<"S","T","A","N","D","B","Y">>)
  /\ listening = TRUE
  /\ handlers = [h \in Handlers |-> IdleHandler]
  /\ accepted = 0
  /\ dataset = << >>
  /\ now = 0
  /\ std = StdStart
  /\ exitCode = "running"
  /\ errorsLogged = 0
  /\ builder = BuilderStart
  /\ pub = PubStart

AcceptFirst ==
  /\ accepted = 0
  /\ \E req \in AllRequests : Arrive(1, req)

NextRequest ==
  \/ AcceptFirst
  \/ Tick
  \/ HandlerStep

SpecRequest == InitRequest /\ [][NextRequest]_vars

(***************************************************************************)
(* The registry functions on texts: a standard run whose input names a     *)
(* registered transform and carries a text built from a few words          *)
(***************************************************************************)
MaxWords == 2

\* The words the texts are built from: trigger words of emojify (some of them
\* overlapping one another when joined), source words of pirate, the letters
\* the uwu and leetspeak rules read, in both cases, a non-letter word
\* character and an emoji (a surrogate pair).
Words ==
  { <<"w","o","w">>, <<"o","w">>, <<"c","o","o","l">>, <<"l","o","v","e">>, <<"o","v","e">>, <<"H","a","p","p","y"," ">>,
    <<"i","s"," ">>, <<"T","h","e"," ">>, <<"m","y">>, <<"y","o","u">>, <<"h","e","l","l","o">>, <<"f","r","i","e","n","d">>, <<"_">>,
    <<"n">>, <<"A">>, <<"e">>, <<"N">>, <<"r","L">>, <<"t","e","s","t">>, <<"D83D","DE0A">> }

RECURSIVE TextsOf(_)
TextsOf(n) ==
  IF n = 0 THEN { << >> }
  ELSE TextsOf(n - 1) \cup { t \o w : t \in TextsOf(n - 1), w \in Words }

\* The texts of at most MaxWords words; the empty text is no message (the
\* run replaces it by the placeholder).
Texts == TextsOf(MaxWords) \ { << >> }

\* await Actor.getInput() resolves to {message: text, transform: name} for a
\* registered name, and the run goes on to the await of Actor.pushData.
GetInputText ==
  /\ mainPc = "getInput"
  /\ \E text \in Texts : \E i \in DOMAIN transformationKeys :
       \E got \in {Object2(kMessage, Str(text), kTransform, Str(transformationKeys[i]))} :
         \E out \in {StandardPipeline(got, now)} : StdAfter(got, out)
  /\ UNCHANGED << dataset, exitCode >>
  /\ StdFrame

\* A standard run at its await of Actor.getInput().
InitTransform ==
  /\ mainPc = "getInput"
  /\ metaOrigin = Undefined
  /\ listening = FALSE
  /\ handlers = [h \in Handlers |-> IdleHandler]
  /\ accepted = 0
  /\ dataset = << >>
  /\ now = 0
  /\ std = StdStart
  /\ exitCode = "running"
  /\ errorsLogged = 0
  /\ builder = BuilderStart
  /\ pub = PubStart

NextTransform == GetInputText

SpecTransform == InitTransform /\ [][NextTransform]_vars

(***************************************************************************)
(* The agent-builder actor (src/main.ts)                                   *)
(***************************************************************************)
MaxMessages == 2

requiredFiles == << "src/main.ts", ".actor/actor.json", "package.json", "Dockerfile" >>

\* What Actor.getInput() resolves to: null, or an input object with some of
\* prompt, actorName and claudeOauthToken.
BuilderInputs ==
  { Null,
    [t |-> "object", f |-> [k \in {"prompt"} |-> Str(<<"p">>)]],
    [t |-> "object", f |-> [k \in {"actorName"} |-> Str(<<"a">>)]],
    [t |-> "object", f |-> [k \in {"prompt", "actorName"} |->
                               IF k = "prompt" THEN Str(<<"p">>) ELSE Str(<< >>)]],
    [t |-> "object", f |-> [k \in {"prompt", "actorName"} |->
                               IF k = "prompt" THEN Str(<<"p">>) ELSE Str(<<"a">>)]],
    [t |-> "object", f |-> [k \in {"prompt", "actorName", "claudeOauthToken"} |->
                               CASE k = "prompt" -> Str(<<"p">>)
                                 [] k = "actorName" -> Str(<<"a">>)
                                 [] OTHER -> Str(<<"k">>)]] }

\* The values of an environment variable: unset, or a token.
EnvValues == { Undefined, Str(<<"k">>) }

\* The kinds of message the agent's stream yields, by the branch of the
\* switch that handles them.
AgentMessages ==
  { "assistant text", "assistant tool_use", "user", "result success", "result error",
    "system init", "tool_progress" }

\* A line of `logs`: its fixed text and the value interpolated into it.
Log(text, arg) == [text |-> text, arg |-> arg, of |-> ""]

\* The line the loop pushes for a message.
LogOfMessage(kind) ==
  CASE kind = "assistant text"     -> Log("assistant", "")
    [] kind = "assistant tool_use" -> Log("tool use", "")
    [] kind = "user"               -> Log("tool result received", "")
    [] kind = "result success"     -> Log("completed", "")
    [] kind = "result error"       -> Log("error", "subtype")
    [] kind = "system init"        -> Log("session started", "")
    [] kind = "tool_progress"      -> Log("tool progress", "")

\* An Error of the builder: its message and the value interpolated into it.
BuilderError(msg, arg) == [msg |-> msg, arg |-> arg]

\* logs.push(`error: ${errorMessage}`)
LogError(error) == [text |-> "error", arg |-> error.msg, of |-> error.arg]

\* What the agent's tool use leaves in the work directory: the scaffold of
\* `apify create` (every required file), or one file removed.
WorkDirsAfterTool(files) ==
  { Range(requiredFiles) } \cup { files \ {f} : f \in Range(requiredFiles) }

BuilderFrame ==
  UNCHANGED << mainPc, metaOrigin, listening, handlers, accepted, dataset, now, std,
               exitCode, errorsLogged, pub >>

\* await Actor.init()
BActorInit ==
  /\ builder.pc = "init"
  /\ builder' = [builder EXCEPT !.pc = "getInput"]
  /\ BuilderFrame

\* The top-level catch block is entered with `error`.
BCatch(b, error) == [b EXCEPT !.pc = "pushError", !.error = error]

\* buildActor(input) from its call to its first await: the token checks throw
\* before the try block, so the promise rejects and the top-level catch takes
\* the error; otherwise the agent is started.
buildActorStart(b, claudeToken) ==
  IF ~Truthy(claudeToken)
  THEN BCatch(b, BuilderError("claudeOauthToken input or CLAUDE_CODE_OAUTH_TOKEN environment variable is required", ""))
  ELSE IF ~Truthy(b.apifyEnv)
  THEN BCatch([b EXCEPT !.claudeEnv = claudeToken],
              BuilderError("APIFY_TOKEN environment variable is required", ""))
  ELSE [b EXCEPT !.claudeEnv = claudeToken, !.agentStarted = TRUE, !.pc = "agent",
                 !.logs = << Log("base directory", "baseDir"),
                             Log("starting claude agent with prompt", "fullPrompt") >>]

\* await Actor.getInput() resolves; the input is validated and buildActor is
\* called.
BGetInput ==
  /\ builder.pc = "getInput"
  /\ \E input \in BuilderInputs :
       builder' =
         IF ~Truthy(GetProp(input, "prompt")) \/ ~Truthy(GetProp(input, "actorName"))
         THEN BCatch([builder EXCEPT !.input = input],
                     BuilderError("missing required input: prompt and actorName are required", ""))
         ELSE buildActorStart([builder EXCEPT !.input = input],
                              OrElse(GetProp(input, "claudeOauthToken"), builder.claudeEnv))
  /\ BuilderFrame

\* await Actor.getInput() rejects.
BGetInputRejected ==
  /\ builder.pc = "getInput"
  /\ builder' = BCatch(builder, BuilderError("getInput failed", ""))
  /\ BuilderFrame

\* for await (const message of response): the next message of the agent.
BAgentMessage ==
  /\ builder.pc = "agent"
  /\ builder.messages < MaxMessages
  /\ \E kind \in AgentMessages :
       \E files \in IF kind = "assistant tool_use" THEN WorkDirsAfterTool(builder.files)
                    ELSE { builder.files } :
         builder' = [builder EXCEPT
                       !.messages = @ + 1,
                       !.files = files,
                       !.agentResult = CASE kind = "result success" -> "success"
                                         [] kind = "result error" -> "error"
                                         [] OTHER -> @,
                       !.logs = Append(@, LogOfMessage(kind))]
  /\ BuilderFrame

\* The catch block of buildActor: the error is logged and the failure result
\* returned.
buildActorCatch(b, error) ==
  [b EXCEPT !.pc = "built",
            !.logs = Append(@, LogError(error)),
            !.result = [success |-> FALSE]]

\* The message stream ends.
BAgentEnd ==
  /\ builder.pc = "agent"
  /\ builder' = [builder EXCEPT
                   !.pc = "verify",
                   !.logs = Append(@, Log("claude agent finished building actor", ""))]
  /\ BuilderFrame

\* The message stream throws.
BAgentThrows ==
  /\ builder.pc = "agent"
  /\ builder' = buildActorCatch(builder, BuilderError("agent failed", ""))
  /\ BuilderFrame

\* A check or command buildActor executed.
Step(op, arg) == [op |-> op, arg |-> arg]

\* The positions in requiredFiles of the files the work directory lacks.
MissingAt(files) == { i \in DOMAIN requiredFiles : requiredFiles[i] \notin files }

\* The first n required files checked and found.
VerifiedLogs(n) == [i \in 1..n |-> Log("verified", requiredFiles[i])]

VerifiedSteps(n) == [i \in 1..n |-> Step("existsSync", requiredFiles[i])]

\* A faulty check: a missing file is logged and the build goes on.
verifyLogsMissing(b) ==
  [b EXCEPT !.pc = "install",
            !.steps = @ \o VerifiedSteps(Len(requiredFiles)),
            !.logs = @ \o [i \in DOMAIN requiredFiles |->
                             IF requiredFiles[i] \in b.files
                             THEN Log("verified", requiredFiles[i])
                             ELSE LogError(BuilderError("required file missing",
                                                        requiredFiles[i]))]
                       \o << Log("installing dependencies...", "") >>]

\* The loop over requiredFiles: the first missing file throws, into the catch
\* block of buildActor; with none missing the build goes on to the install.
verifyRequiredFiles(b) ==
  IF MissingAt(b.files) # {}
  THEN TheOne({ buildActorCatch(
                  [b EXCEPT !.steps = @ \o VerifiedSteps(m),
                            !.logs = @ \o VerifiedLogs(m - 1)],
                  BuilderError("required file missing", requiredFiles[m]))
                : m \in { CHOOSE i \in MissingAt(b.files) :
                            \A j \in MissingAt(b.files) : i <= j } })
  ELSE [b EXCEPT !.pc = "install",
                 !.steps = @ \o VerifiedSteps(Len(requiredFiles)),
                 !.logs = @ \o VerifiedLogs(Len(requiredFiles))
                            \o << Log("installing dependencies...", "") >>]

BVerify ==
  /\ builder.pc = "verify"
  /\ builder' = verifyRequiredFiles(builder)
  /\ BuilderFrame

\* execSync('bun install'): it returns, or throws when the command fails.
BInstall ==
  /\ builder.pc = "install"
  /\ \E ok \in BOOLEAN :
       builder' =
         IF ok
         THEN [builder EXCEPT !.pc = "publish",
                              !.steps = Append(@, Step("bun install", "")),
                              !.logs = Append(@, Log("publishing actor to apify...", ""))]
         ELSE buildActorCatch([builder EXCEPT !.steps = Append(@, Step("bun install", ""))],
                              BuilderError("Command failed", "bun install"))
  /\ BuilderFrame

\* execSync('bun x apify-cli push'): it returns and buildActor returns the
\* success result, or it throws.
BPublish ==
  /\ builder.pc = "publish"
  /\ \E ok \in BOOLEAN :
       builder' =
         IF ok
         THEN [builder EXCEPT !.pc = "built",
                              !.steps = Append(@, Step("bun x apify-cli push", "")),
                              !.logs = Append(@, Log("push result", "pushResult")),
                              !.result = [success |-> TRUE]]
         ELSE buildActorCatch(
                [builder EXCEPT !.steps = Append(@, Step("bun x apify-cli push", ""))],
                BuilderError("Command failed", "bun x apify-cli push"))
  /\ BuilderFrame

\* await Actor.pushData({...result, timestamp, inputPrompt}) resolves, and the
\* finally block is reached; or it rejects, into the top-level catch block.
BPushResult ==
  /\ builder.pc = "built"
  /\ \E ok \in BOOLEAN :
       builder' =
         IF ok
         THEN [builder EXCEPT !.pc = "exiting",
                              !.pushed = Append(@, [success |-> builder.result.success,
                                                    logs |-> builder.logs,
                                                    error |-> ""])]
         ELSE BCatch(builder, BuilderError("pushData failed", ""))
  /\ BuilderFrame

\* The top-level catch block: await Actor.pushData({success: false, error,
\* timestamp}); a rejection leaves the block through finally.
BPushError ==
  /\ builder.pc = "pushError"
  /\ \E ok \in BOOLEAN :
       builder' =
         IF ok
         THEN [builder EXCEPT !.pc = "exiting",
                              !.pushed = Append(@, [success |-> FALSE, logs |-> << >>,
                                                    error |-> builder.error.msg])]
         ELSE [builder EXCEPT !.pc = "exiting"]
  /\ BuilderFrame

\* finally { await Actor.exit() }: the process ends with the SDK's default
\* exit code.
BActorExit ==
  /\ builder.pc = "exiting"
  /\ builder' = [builder EXCEPT !.pc = "exited", !.exitCode = "0"]
  /\ BuilderFrame

\* The agent-builder run, from process start, in any environment.
InitBuilder ==
  /\ mainPc = "init"
  /\ metaOrigin = Undefined
  /\ listening = FALSE
  /\ handlers = [h \in Handlers |-> IdleHandler]
  /\ accepted = 0
  /\ dataset = << >>
  /\ now = 0
  /\ std = StdStart
  /\ exitCode = "running"
  /\ errorsLogged = 0
  /\ \E c \in EnvValues : \E a \in EnvValues :
       builder = [BuilderStart EXCEPT !.claudeEnv = c, !.apifyEnv = a]
  /\ pub = PubStart

NextBuilder ==
  \/ BActorInit
  \/ BGetInput
  \/ BGetInputRejected
  \/ BAgentMessage
  \/ BAgentEnd
  \/ BAgentThrows
  \/ BVerify
  \/ BInstall
  \/ BPublish
  \/ BPushResult
  \/ BPushError
  \/ BActorExit

SpecBuilder == InitBuilder /\ [][NextBuilder]_vars

(***************************************************************************)
(* The publish script (scripts/publish.ts)                                 *)
(***************************************************************************)
\* The command lines: an optional directory, then any of the options.
Commands ==
  [dir : {Undefined, Str(<<".">>), Str(<<"a","c","t">>), Str(<<"g","o","n","e">>)},
   name : {Undefined, Str(<<"X">>)},
   version : {Undefined, Str(<<"2",".","0">>)},
   tag : {Undefined, Str(<<"T">>)},
   token : {Undefined, Str(<<"K">>)},
   public : BOOLEAN,
   help : BOOLEAN]

\* The arguments of an option with a value, when it is given.
OptionArgs(flag, value) == IF value = Undefined THEN << >> ELSE << flag, value.v >>

\* process.argv.slice(2) of a command line.
ArgvOf(cmd) ==
  (IF cmd.dir = Undefined THEN << >> ELSE << cmd.dir.v >>)
    \o OptionArgs(<<"-","-","n","a","m","e">>, cmd.name)
    \o OptionArgs(<<"-","-","v","e","r","s","i","o","n">>, cmd.version)
    \o OptionArgs(<<"-","-","t","a","g">>, cmd.tag)
    \o OptionArgs(<<"-","-","t","o","k","e","n">>, cmd.token)
    \o (IF cmd.public THEN << <<"-","-","p","u","b","l","i","c">> >> ELSE << >>)
    \o (IF cmd.help THEN << <<"-","-","h","e","l","p">> >> ELSE << >>)

\* The directories that exist (the current one, and two in it, one of them
\* named as the actor), and the states of .actor/actor.json in them:
\* no file, a file that is not JSON, a config with a name only, a config
\* with a name and a version.
ExistingDirs == { <<".">>, <<"a","c","t">>, <<"X">> }

Configs == { "absent", "malformed", "named", "versioned" }

\* config?.name and config?.version
ConfigName(config) ==
  IF config \in {"named", "versioned"} THEN Str(<<"c","f","g">>) ELSE Undefined

ConfigVersion(config) == IF config = "versioned" THEN Str(<<"1",".","0">>) ELSE Undefined

\* path.basename(path.resolve(directory))
Basename(directory) == IF directory = <<".">> THEN <<"c","w","d">> ELSE directory

\* The accounts: no actor, or an actor of every name a run can publish; and
\* the versions each actor has.
RemoteActors == { {}, { <<"X">>, <<"c","f","g">>, <<"c","w","d">>, <<"a","c","t">> } }

RemoteVersions == { {}, { <<"0",".","1">> }, { <<"1",".","0">>, <<"2",".","0">> } }

\* a.startsWith(prefix)
startsWith(a, prefix) ==
  Len(a) >= Len(prefix) /\ SubSeq(a, 1, Len(prefix)) = prefix

\* args.includes(x)
includes(args, x) == \E i \in DOMAIN args : args[i] = x

\* args.indexOf(x), counted from 1; 0 when x is not in args.
indexOf(args, x) ==
  IF includes(args, x)
  THEN CHOOSE i \in DOMAIN args : args[i] = x /\ \A j \in 1..(i - 1) : args[j] # x
  ELSE 0

\* args.find(a => !a.startsWith('--'))
findDirectory(args) ==
  LET plain == { i \in DOMAIN args : ~startsWith(args[i], <<"-","-">>) }
  IN  IF plain = {} THEN Undefined
      ELSE Str(args[CHOOSE i \in plain : \A j \in plain : i <= j])

\* getArg(name): the argument after `--name`, undefined without one.
getArg(args, name) ==
  LET idx == indexOf(args, <<"-","-">> \o name)
  IN  IF idx # 0 /\ idx + 1 <= Len(args) THEN Str(args[idx + 1]) ELSE Undefined

\* The options object main() passes to publish().
OptionsOf(args) ==
  [directory |-> OrElse(findDirectory(args), Str(<<".">>)),
   actorName |-> getArg(args, <<"n","a","m","e">>),
   version   |-> getArg(args, <<"v","e","r","s","i","o","n">>),
   buildTag  |-> getArg(args, <<"t","a","g">>),
   isPublic  |-> includes(args, <<"-","-","p","u","b","l","i","c">>),
   token     |-> getArg(args, <<"t","o","k","e","n">>)]

\* A destructuring default: it applies to undefined only.
Default(value, default) == IF value = Undefined THEN default ELSE value

\* A faulty handler: the error is printed and the process ends normally.
PubFailExitsZero(p, message) ==
  [p EXCEPT !.pc = "exited", !.error = message, !.exit = "0"]

\* main().catch: the error's message is printed and the process exits with
\* status 1.
PubFail(p, message) == [p EXCEPT !.pc = "exited", !.error = message, !.exit = "1"]

\* The file-system calls of loadActorConfig and collectFiles.
ConfigReads(config) ==
  << "existsSync actor.json" >>
    \o (IF config = "absent" THEN << >> ELSE << "readFileSync actor.json" >>)

\* finalVersion of publish(): version || config?.version || '0.1'
finalVersionOf(version, config) ==
  OrElse(OrElse(version, ConfigVersion(config)), Str(<<"0",".","1">>))

\* finalName of publish(): actorName || config?.name || path.basename(absDir)
finalNameOf(actorName, config, directory) ==
  OrElse(OrElse(actorName, ConfigName(config)), Str(Basename(directory)))

\* publish(options) from its call to its first await: the defaults, the
\* token and directory checks, the config and the source files.
publishStart(p, options) ==
  LET version  == Default(options.version, Str(<<"0",".","1">>))
      buildTag == Default(options.buildTag, Str(<<"l","a","t","e","s","t">>))
      token    == Default(options.token, p.envToken)
      dir      == options.directory.v
  IN  IF ~Truthy(token)
      THEN PubFail(p, "APIFY_TOKEN is required. set it via env or --token flag")
      ELSE IF dir \notin ExistingDirs
      THEN PubFail([p EXCEPT !.fsOps = << "existsSync directory" >>],
                   "directory not found")
      ELSE IF p.config = "malformed"
      THEN PubFail([p EXCEPT !.fsOps = << "existsSync directory" >> \o ConfigReads(p.config)],
                   "JSON.parse failed")
      ELSE [p EXCEPT !.finalName = finalNameOf(options.actorName, p.config, dir).v,
                     !.finalVersion = finalVersionOf(version, p.config).v,
                     !.buildTag = buildTag.v,
                     !.isPublic = options.isPublic,
                     !.fsOps = << "existsSync directory" >> \o ConfigReads(p.config)
                                 \o << "collectFiles" >>,
                     !.pc = "listActors"]

\* main(): --help prints the usage and exits with status 0; otherwise the
\* directory and the options are taken from the arguments and publish() is
\* called.
main(p) ==
  IF includes(p.argv, <<"-","-","h","e","l","p">>) \/ includes(p.argv, <<"-","h">>)
  THEN [p EXCEPT !.pc = "exited", !.exit = "0"]
  ELSE TheOne({ publishStart([p EXCEPT !.directory = options.directory.v], options)
                : options \in { OptionsOf(p.argv) } })

PubFrame ==
  UNCHANGED << mainPc, metaOrigin, listening, handlers, accepted, dataset, now, std,
               exitCode, errorsLogged, builder >>

PMain ==
  /\ pub.pc = "start"
  /\ pub' = main(pub)
  /\ PubFrame

\* A call of the API client: the operation, the version it names, and
\* whether it succeeded.
Call(op, version, ok) == [op |-> op, version |-> version, ok |-> ok]

\* A faulty choice: an existing actor is not looked for and a new one is
\* always created.
afterListAlwaysCreates(p, listed) ==
  [p EXCEPT !.calls = Append(@, Call("actors.list", << >>, listed)),
            !.pc = "createActor"]

\* After client.actors().list(): the actor of the final name is looked for
\* in the items; a failed listing is logged and leaves `actor` undefined.
afterList(p, listed) ==
  [p EXCEPT !.calls = Append(@, Call("actors.list", << >>, listed)),
            !.actorFound = listed /\ p.finalName \in p.remoteActors,
            !.pc = IF listed /\ p.finalName \in p.remoteActors
                   THEN "listVersions" ELSE "createActor"]

PListActors ==
  /\ pub.pc = "listActors"
  /\ \E listed \in BOOLEAN : pub' = afterList(pub, listed)
  /\ PubFrame

\* client.actor(id).versions().list(): a rejection ends the run; otherwise
\* the final version is looked for.
PListVersions ==
  /\ pub.pc = "listVersions"
  /\ \E ok \in BOOLEAN :
       pub' =
         IF ok
         THEN [pub EXCEPT !.calls = Append(@, Call("versions.list", << >>, TRUE)),
                          !.pc = IF pub.finalVersion \in pub.remoteVersions
                                 THEN "update" ELSE "createVersion"]
         ELSE PubFail([pub EXCEPT !.calls = Append(@, Call("versions.list", << >>, FALSE))],
                      "versions.list failed")
  /\ PubFrame

\* An upload call `op` was awaited: on success the build is next, a
\* rejection ends the run.
afterUpload(p, op, ok) ==
  IF ok
  THEN [p EXCEPT !.calls = Append(@, Call(op, p.finalVersion, TRUE)),
                 !.remoteActors = @ \cup { p.finalName },
                 !.remoteVersions = @ \cup { p.finalVersion },
                 !.pc = "build"]
  ELSE PubFail([p EXCEPT !.calls = Append(@, Call(op, p.finalVersion, FALSE))],
               "upload failed")

\* client.actor(id).version(finalVersion).update({...})
PUpdateVersion ==
  /\ pub.pc = "update"
  /\ \E ok \in BOOLEAN : pub' = afterUpload(pub, "version.update", ok)
  /\ PubFrame

\* client.actor(id).versions().create({versionNumber: finalVersion, ...})
PCreateVersion ==
  /\ pub.pc = "createVersion"
  /\ \E ok \in BOOLEAN : pub' = afterUpload(pub, "versions.create", ok)
  /\ PubFrame

\* client.actors().create({name: finalName, ..., versions: [...]})
PCreateActor ==
  /\ pub.pc = "createActor"
  /\ \E ok \in BOOLEAN : pub' = afterUpload(pub, "actors.create", ok)
  /\ PubFrame

\* waitForFinish of the build call, in seconds.
waitForFinish == 120

BuildStatuses == { "SUCCEEDED", "FAILED", "RUNNING" }

\* client.actor(id).build(finalVersion, {tag, waitForFinish}): it resolves
\* with the build's status when the build ends or the wait is over, and
\* publish() returns; or it rejects.
PBuild ==
  /\ pub.pc = "build"
  /\ \/ \E status \in BuildStatuses :
          pub' = [pub EXCEPT
                    !.calls = Append(@, Call("build", pub.finalVersion, TRUE)),
                    !.buildWait = waitForFinish,
                    !.status = status, !.pc = "exited", !.exit = "0"]
     \/ pub' = PubFail([pub EXCEPT !.calls = Append(@, Call("build", pub.finalVersion, FALSE))],
                       "build failed")
  /\ PubFrame

\* A run of the publish script: any command line, environment, directory
\* content and account.
InitPublish ==
  /\ mainPc = "init"
  /\ metaOrigin = Undefined
  /\ listening = FALSE
  /\ handlers = [h \in Handlers |-> IdleHandler]
  /\ accepted = 0
  /\ dataset = << >>
  /\ now = 0
  /\ std = StdStart
  /\ exitCode = "running"
  /\ errorsLogged = 0
  /\ builder = BuilderStart
  /\ \E cmd \in Commands : \E token \in EnvValues : \E config \in Configs :
       \E actors \in RemoteActors : \E versions \in RemoteVersions :
         pub = [PubStart EXCEPT !.cmd = cmd, !.argv = ArgvOf(cmd), !.envToken = token,
                                !.config = config, !.remoteActors = actors,
                                !.remoteVersions = versions]

NextPublish ==
  \/ PMain
  \/ PListActors
  \/ PListVersions
  \/ PUpdateVersion
  \/ PCreateVersion
  \/ PCreateActor
  \/ PBuild

SpecPublish == InitPublish /\ [][NextPublish]_vars

\* The server with what its runtime guarantees: the process starts, time
\* passes, and a connection whose response is written is closed.  The
\* client's sending of the body and the settling of Actor.pushData are not
\* guaranteed: the client may stall and the call may stay pending.
SpecStalling ==
  /\ Init
  /\ [][Next]_vars
  /\ WF_vars(ActorInit)
  /\ WF_vars(Tick)
  /\ \A h \in Handlers : WF_vars(Close(h))

(***************************************************************************)
(* Properties                                                              *)
(***************************************************************************)
\* The handler has run its pipeline on the whole body it read.
Processed(hrec) ==
  /\ hrec.pc \in {"pushing", "stored", "done"}
  /\ ~IsProbe(hrec.req)
  /\ hrec.error # RequestAborted

HasResult(hrec) == hrec.result.t = "object"

\* A field of a result record, as it is serialised.
Field(result, k) == ToJSON(result).f[k]

IsText(v) == v.t = "string"

\* A transform name that the registry does not register.
UnknownName(transform) ==
  IsText(transform) /\ transform.v \notin Range(transformationKeys)

\* The body parses to a JSON object.
IsJsonObject(body) == JSONParse(body).ok /\ JSONParse(body).val.t = "object"

\* The run has applied the registered transform `name` to a text.
Applied(name) ==
  /\ HasResult(std)
  /\ std.input.t = "object"
  /\ GetProp(std.input, kTransform) = Str(name)

\* The text the run was given and the text it produced.
TextIn == GetProp(std.input, kMessage).v

TextOut == Field(std.result, kTransformed).v

\* C1: for every text and every name that is not a registered transform name,
\* applying the transform raises no error and returns the text unchanged, in
\* standby mode (first conjunct) and in standard mode (second conjunct).
C1_UnknownNameOnHandler(hrec) ==
  ( /\ Processed(hrec)
    /\ CanReadProps(ParseInput(hrec.req, hrec.body))
    /\ IsText(MessageOf(ParseInput(hrec.req, hrec.body)))
    /\ UnknownName(TransformOf(ParseInput(hrec.req, hrec.body))) )
  => /\ hrec.error # TypeError
     /\ HasResult(hrec)
     /\ Field(hrec.result, kTransformed) = Field(hrec.result, kOriginal)

C1_UnknownNameIsIdentity ==
  /\ \A h \in Handlers : C1_UnknownNameOnHandler(handlers[h])
  /\ ( /\ std.runs = 1
       /\ IsText(MessageOf(OrElse(std.input, EmptyObject)))
       /\ UnknownName(TransformOf(OrElse(std.input, EmptyObject))) )
     => /\ std.error # TypeError
        /\ HasResult(std)
        /\ Field(std.result, kTransformed) = Field(std.result, kOriginal)

\* C2: every standby request without the probe header whose body was read and
\* whose record was persisted is answered with the 200 result, never with the
\* 500 error response.
C2_NormalizationNeverFails ==
  \A h \in Handlers :
    ( /\ handlers[h].pc = "done"
      /\ ~IsProbe(handlers[h].req)
      /\ handlers[h].error \notin {RequestAborted, PushDataFailed} )
    => /\ HasResult(handlers[h])
       /\ handlers[h].response = ResultResponse(handlers[h].result)

\* C3: every standby request that carries the readiness-probe header, whatever
\* its value, is answered at once with the fixed "Ready!" reply, runs no
\* pipeline and makes no dataset write.
C3_ProbeAlwaysReady ==
  \A h \in Handlers :
    (handlers[h].pc # "idle" /\ handlers[h].req.probe.t # "undefined")
    => /\ handlers[h].pc = "done"
       /\ handlers[h].response = ReadyResponse
       /\ handlers[h].result.t = "undefined"
       /\ handlers[h].pushes = 0

\* C4: a failure in one request's pipeline is caught in its handler and
\* answered with the 500 error body; the step changes no other handler and
\* not the dataset, the server keeps listening, and every request, whatever
\* failed before it arrived, has the result of the pipeline on its own input.
C4_FailureStep(h) ==
  (~handlers[h].error.thrown /\ handlers'[h].error.thrown)
  => /\ handlers'[h].pc = "done"
     /\ handlers'[h].response.status = 500
     /\ handlers'[h].response = ErrorResponse(handlers'[h].error)
     /\ \A g \in Handlers \ {h} : handlers'[g] = handlers[g]
     /\ dataset' = dataset
     /\ exitCode' = "running"

C4_StaysServing == mainPc = "serving" => (mainPc' = "serving" /\ listening')

C4_OwnResult(hrec) ==
  (Processed(hrec) /\ hrec.error # TypeError)
  => \E ms \in 0..now : hrec.result = StandbyPipeline(hrec.req, hrec.body, ms).result

C4_FailureIsolation ==
  /\ [][C4_StaysServing /\ \A h \in Handlers : C4_FailureStep(h)]_vars
  /\ [](\A h \in Handlers : C4_OwnResult(handlers[h]))

\* C4's case: a request that arrived after a failure had been caught is
\* answered with its 200 result, the server still listening.
C4_Witness ==
  /\ listening
  /\ \E h \in Handlers :
       /\ handlers[h].errorsBefore >= 1
       /\ handlers[h].pc = "done"
       /\ handlers[h].response.status = 200
       /\ handlers[h].response = ResultResponse(handlers[h].result)

\* C5: the standard run starts no listener, runs the pipeline at most once,
\* calls Actor.pushData at most once, has appended exactly one record (its
\* result) when it ends without an error, ends only through Actor.exit, which
\* every thrown error leads to, and always ends.
C5_StandardInv ==
  /\ ~listening
  /\ \A h \in Handlers : handlers[h] = IdleHandler
  /\ std.runs <= 1 /\ std.pushes <= 1 /\ Len(dataset) <= 1
  /\ std.error.thrown => mainPc \in {"exiting", "exited"}
  /\ mainPc = "exited" => std.exits = 1
  /\ (mainPc \in {"exiting", "exited"} /\ ~std.error.thrown)
       => (std.runs = 1 /\ dataset = << ToJSON(std.result) >>)

C5_StandardRunsOnceAndExits ==
  /\ [](~IsStandby(metaOrigin) => C5_StandardInv)
  /\ <>(mainPc = "exited")

\* C5's case: a standard run that ended through Actor.exit with its one record
\* in the dataset.
C5_Witness ==
  /\ mainPc = "exited"
  /\ std.exits = 1
  /\ ~std.error.thrown
  /\ Len(dataset) = 1

\* C6: a standard run in which a step failed ends with a non-zero exit code.
C6_FailureExitsNonZero ==
  (mainPc = "exited" /\ std.error.thrown) => exitCode = "1"

\* C7: for a request without a body, message and transform are each the query
\* parameter of that name when it is present, and each its own default when it
\* is not.
C7_QueryOnHandler(hrec) ==
  (Processed(hrec) /\ Len(hrec.req.body) = 0 /\ HasResult(hrec))
  => /\ Field(hrec.result, kOriginal) =
          IF IsText(searchParamsGet(hrec.req.url, kMessage))
          THEN searchParamsGet(hrec.req.url, kMessage) ELSE Str(DefaultMessage)
     /\ Field(hrec.result, kTransformation) =
          IF IsText(searchParamsGet(hrec.req.url, kTransform))
          THEN searchParamsGet(hrec.req.url, kTransform) ELSE Str(DefaultTransform)

C7_QueryParamsIndependent == \A h \in Handlers : C7_QueryOnHandler(handlers[h])

\* C8: for a POST whose body is not a JSON object, the message is the whole
\* raw body and the transform is the default.
C8_PlainOnHandler(hrec) ==
  ( /\ Processed(hrec)
    /\ hrec.req.method = POST
    /\ Len(hrec.body) > 0
    /\ ~IsJsonObject(hrec.body) )
  => /\ hrec.error # TypeError
     /\ HasResult(hrec)
     /\ Field(hrec.result, kOriginal) = Str(hrec.body)
     /\ Field(hrec.result, kTransformation) = Str(DefaultTransform)

C8_PlainTextBodyIsMessage == \A h \in Handlers : C8_PlainOnHandler(handlers[h])

\* C9: when the body the handler read is not empty and does not parse as JSON,
\* no error is raised, the message is the whole raw body, the transform is the
\* default 'emojify' (and is applied), and the query parameters are not used.
C9_FallbackOnHandler(hrec) ==
  (Processed(hrec) /\ Len(hrec.body) > 0 /\ ~JSONParse(hrec.body).ok)
  => /\ hrec.error # TypeError
     /\ HasResult(hrec)
     /\ Field(hrec.result, kOriginal) = Str(hrec.body)
     /\ Field(hrec.result, kTransformation) = Str(<<"e","m","o","j","i","f","y">>)
     /\ Field(hrec.result, kTransformed) = Str(emojify(hrec.body))

HasMessageAndTransform(body) ==
  /\ IsJsonObject(body)
  /\ IsText(GetProp(JSONParse(body).val, kMessage))
  /\ IsText(GetProp(JSONParse(body).val, kTransform))
  /\ Truthy(GetProp(JSONParse(body).val, kMessage))
  /\ Truthy(GetProp(JSONParse(body).val, kTransform))

\* C10: whatever the method, a request that carries a JSON body
\* {message, transform} has original and transformation from that body.
C10_BodyOnHandler(hrec) ==
  (Processed(hrec) /\ HasMessageAndTransform(hrec.req.body))
  => /\ HasResult(hrec)
     /\ Field(hrec.result, kOriginal) = GetProp(JSONParse(hrec.req.body).val, kMessage)
     /\ Field(hrec.result, kTransformation) =
          GetProp(JSONParse(hrec.req.body).val, kTransform)

C10_BodyUsedForEveryMethod == \A h \in Handlers : C10_BodyOnHandler(handlers[h])

\* The nine names the documentation lists for availableTransforms.
NineNames ==
  << <<"r","e","v","e","r","s","e">>, <<"u","p","p","e","r","c","a","s","e">>, <<"l","o","w","e","r","c","a","s","e">>, <<"l","e","e","t","s","p","e","a","k">>, <<"s","p","o","n","g","e","b","o","b">>,
     <<"e","m","o","j","i","f","y">>, <<"p","i","r","a","t","e">>, <<"u","w","u">>, <<"a","i">> >>

\* C11: availableTransforms of every result record, of a standby request and
\* of the standard run, is the sequence of the nine names reverse, uppercase,
\* lowercase, leetspeak, spongebob, emojify, pirate, uwu, ai.
C11_NineAvailableTransforms ==
  /\ \A h \in Handlers :
       HasResult(handlers[h])
       => Field(handlers[h].result, kAvailableTransforms) =
            Arr([i \in DOMAIN NineNames |-> Str(NineNames[i])])
  /\ HasResult(std)
     => Field(std.result, kAvailableTransforms) =
          Arr([i \in DOMAIN NineNames |-> Str(NineNames[i])])

\* What the caller of a standby request supplied: the JSON object of the body,
\* a body that is no JSON object as the message, else the query parameters.
Supplied(req) ==
  IF Len(req.body) > 0
  THEN IF IsJsonObject(req.body) THEN JSONParse(req.body).val
       ELSE Object1(kMessage, Str(req.body))
  ELSE Object2(kMessage,
               IF IsText(searchParamsGet(req.url, kMessage))
               THEN searchParamsGet(req.url, kMessage) ELSE Undefined,
               kTransform,
               IF IsText(searchParamsGet(req.url, kTransform))
               THEN searchParamsGet(req.url, kTransform) ELSE Undefined)

C12_Faithful(input, result) ==
  /\ IsText(GetProp(input, kMessage))
     => Field(result, kOriginal) = GetProp(input, kMessage)
  /\ GetProp(input, kMessage) = Undefined
     => Field(result, kOriginal) = Str(DefaultMessage)
  /\ IsText(GetProp(input, kTransform))
     => Field(result, kTransformation) = GetProp(input, kTransform)
  /\ GetProp(input, kTransform) = Undefined
     => Field(result, kTransformation) = Str(DefaultTransform)
  /\ Field(result, kStatus) = Str(<<"s","u","c","c","e","s","s">>)

\* C12: in every result record, original is the message string the caller
\* supplied (the placeholder only when none was supplied), transformation is
\* the transform name the caller supplied (the default only when none was
\* supplied), and status is "success".
C12_ResultFidelity ==
  /\ \A h \in Handlers :
       (Processed(handlers[h]) /\ HasResult(handlers[h]))
       => C12_Faithful(Supplied(handlers[h].req), handlers[h].result)
  /\ (HasResult(std) /\ std.input.t = "object")
     => C12_Faithful(std.input, std.result)

\* The positions of text at which word occurs, letter case ignored.
Occurrences(text, word) ==
  { i \in 1..Len(text) : MatchAt(text, i, word, TRUE, FALSE) }

\* C13: emojify leaves, for every trigger word, each occurrence of the word in
\* the input (letter case ignored, overlapping ones included) present in the
\* output and immediately followed by a space and the word's emoji: the
\* output has at least as many occurrences of "word emoji" as the input has
\* of the word.
C13_EmojifyEveryOccurrence ==
  Applied(<<"e","m","o","j","i","f","y">>)
  => \A k \in DOMAIN emojiMap :
       Cardinality(Occurrences(TextOut, emojiMap[k][1] \o <<" ">> \o emojiMap[k][2]))
         >= Cardinality(Occurrences(TextIn, emojiMap[k][1]))

\* The source words of pirate with their replacements, in the order of the
\* rules.
PirateRules ==
  << << <<"y","o","u">>, <<"y","e">> >>, << <<"m","y">>, <<"m","e">> >>, << <<"i","s">>, <<"b","e">> >>,
     << <<"t","h","e">>, <<"t","h","'">> >>, << <<"h","e","l","l","o">>, <<"a","h","o","y">> >>, << <<"f","r","i","e","n","d">>, <<"m","a","t","e","y">> >> >>

PirateSuffix == <<" ", "2620", "FE0F">>

\* The first k rules applied in order, each to the output of the one before.
RECURSIVE PirateUpTo(_, _)
PirateUpTo(text, k) ==
  IF k = 0 THEN text
  ELSE ReplaceAll(PirateUpTo(text, k - 1), PirateRules[k][1], PirateRules[k][2],
                  TRUE, TRUE)

\* text has a whole-word occurrence of word, letter case ignored.
HasWholeWord(text, word) ==
  \E i \in 1..Len(text) : MatchAt(text, i, word, TRUE, TRUE)

RECURSIVE YAfterN(_, _)
YAfterN(text, i) ==
  IF i > Len(text) THEN << >>
  ELSE IF /\ text[i] \in {"n", "N"}
          /\ i < Len(text)
          /\ text[i + 1] \in {"a","e","i","o","u","A","E","I","O","U"}
       THEN << text[i], "y" >> \o YAfterN(text, i + 1)
       ELSE << text[i] >> \o YAfterN(text, i + 1)

\* C15: the output of uwu is the input with every r/l made w and every R/L
\* made W, then a 'y' inserted between every n or N and a vowel of either case
\* that follows it, then every 'ove' made 'uv', then " uwu" appended.
C15_UwuRules ==
  Applied(<<"u","w","u">>)
  => TextOut =
       ReplaceAll(YAfterN(ReplaceClass(ReplaceClass(TextIn, {"r","l"}, "w"),
                                       {"R","L"}, "W"), 1),
                  <<"o","v","e">>, <<"u","v">>, FALSE, FALSE)
       \o <<" ","u","w","u">>

\* The digit the rule table gives a letter, or the character itself.
LeetOf(c) ==
  CASE c \in {"a","A"} -> "4"
    [] c \in {"e","E"} -> "3"
    [] c \in {"i","I"} -> "1"
    [] c \in {"o","O"} -> "0"
    [] c \in {"s","S"} -> "5"
    [] c \in {"t","T"} -> "7"
    [] OTHER -> c

\* C16: the output of leetspeak has the input's length, each a, e, i, o, s, t
\* of either case replaced by 4, 3, 1, 0, 5, 7 and every other character in
\* place, so none of the six letters is left.
C16_LeetspeakSubstitutes ==
  Applied(<<"l","e","e","t","s","p","e","a","k">>)
  => /\ Len(TextOut) = Len(TextIn)
     /\ \A i \in DOMAIN TextIn : TextOut[i] = LeetOf(TextIn[i])
     /\ \A i \in DOMAIN TextOut :
          TextOut[i] \notin {"a","A","e","E","i","I","o","O","s","S","t","T"}

\* C16's case: leetspeak made "The test" into "7h3 7357".
C16_Witness ==
  /\ Applied(<<"l","e","e","t","s","p","e","a","k">>)
  /\ TextIn = <<"T","h","e"," ","t","e","s","t">>
  /\ TextOut = <<"7","h","3"," ","7","3","5","7">>

\* C17: the output of reverse has the code units of the input (what split('')
\* yields) in end-to-end reversed order, and reversing it again gives the
\* input back.
C17_ReverseInvolution ==
  Applied(<<"r","e","v","e","r","s","e">>)
  => /\ Len(TextOut) = Len(TextIn)
     /\ \A i \in DOMAIN TextIn : TextOut[i] = TextIn[Len(TextIn) + 1 - i]
     /\ reverse(TextOut) = TextIn
     /\ reverse(reverse(TextIn)) = TextIn

\* C17's case: reverse made "The test" into "tset ehT".
C17_Witness ==
  /\ Applied(<<"r","e","v","e","r","s","e">>)
  /\ TextIn = <<"T","h","e"," ","t","e","s","t">>
  /\ TextOut = <<"t","s","e","t"," ","e","h","T">>

\* C18: the output of spongebob has, at each even index (0-based, every
\* character counted), the input's character lowercased and, at each odd
\* index, the input's character uppercased.
C18_SpongebobAlternates ==
  Applied(<<"s","p","o","n","g","e","b","o","b">>)
  => /\ Len(TextOut) = Len(TextIn)
     /\ \A i \in DOMAIN TextIn :
          TextOut[i] = IF (i - 1) % 2 = 0 THEN toLowerCase(TextIn)[i]
                       ELSE toUpperCase(TextIn)[i]

\* C18's case: spongebob made "The test" into "tHe tEsT", the space counted.
C18_Witness ==
  /\ Applied(<<"s","p","o","n","g","e","b","o","b">>)
  /\ TextIn = <<"T","h","e"," ","t","e","s","t">>
  /\ TextOut = <<"t","H","e"," ","t","E","s","T">>

\* C19: once Actor.init() has returned, the process is in standby mode (the
\* listener bound, no one-shot pipeline run, Actor.exit never called) if and
\* only if the origin value is the string 'STANDBY'; with the value absent or
\* any other value it is in standard mode (no listener, no request handled).
C19_ModeSelection ==
  mainPc # "init"
  => /\ (mainPc = "serving") <=> (metaOrigin = Str(<<"S","T","A","N","D","B","Y">>))
     /\ mainPc = "serving"
        => /\ listening
           /\ std = StdStart
           /\ exitCode = "running"
     /\ mainPc # "serving"
        => /\ ~listening
           /\ accepted = 0
           /\ \A h \in Handlers : handlers[h] = IdleHandler
           /\ mainPc \in {"getInput", "pushing", "stored", "exiting", "exited"}

\* C19's case: with the origin value 'standby' (lower case) the run was a
\* standard one and ended through Actor.exit.
C19_Witness ==
  /\ metaOrigin = Str(<<"s","t","a","n","d","b","y">>)
  /\ mainPc = "exited"
  /\ std.runs = 1
  /\ ~listening

\* The checks and commands of a complete build, in order.
BuildOrder ==
  VerifiedSteps(Len(requiredFiles))
    \o << Step("bun install", ""), Step("bun x apify-cli push", "") >>

IsPrefix(s, t) == Len(s) <= Len(t) /\ s = SubSeq(t, 1, Len(s))

\* The checks have run and found a required file missing.
FoundMissing == builder.steps # << >> /\ MissingAt(builder.files) # {}

\* C20: the build executes its steps in the order verify (each required file,
\* in list order), install, publish; install and publish run only with every
\* required file present; and when a required file is missing neither runs,
\* the result (and the record pushed) has success = false and the log has an
\* error entry naming the missing file.
C20_VerifyInstallPublish ==
  /\ IsPrefix(builder.steps, BuildOrder)
  /\ (\E i \in DOMAIN builder.steps :
        builder.steps[i].op \in {"bun install", "bun x apify-cli push"})
     => MissingAt(builder.files) = {}
  /\ FoundMissing
     => /\ \A i \in DOMAIN builder.steps : builder.steps[i].op = "existsSync"
        /\ builder.result = [success |-> FALSE]
        /\ \E f \in Range(requiredFiles) \ builder.files :
             \E i \in DOMAIN builder.logs :
               builder.logs[i] = LogError(BuilderError("required file missing", f))
        /\ \A i \in DOMAIN builder.pushed : ~builder.pushed[i].success

\* C20's case: the agent left every required file but the Dockerfile; the
\* three others were verified, nothing was installed or published and the
\* failure record was pushed.
C20_Witness ==
  /\ builder.pc = "exited"
  /\ builder.files = Range(requiredFiles) \ {"Dockerfile"}
  /\ Len(builder.steps) = Len(requiredFiles)
  /\ Len(builder.pushed) = 1
  /\ ~builder.pushed[1].success


\* C21: when the code-generation agent ends with a non-success result
\* message, the run is reported as failed (success is false) and neither
\* `bun install` nor `bun x apify-cli push` is executed.
C21_AgentFailureTerminates ==
  builder.agentResult = "error"
    => /\ \A i \in DOMAIN builder.steps :
            builder.steps[i].op \notin {"bun install", "bun x apify-cli push"}
       /\ builder.result # [success |-> TRUE]
       /\ \A i \in DOMAIN builder.pushed : ~builder.pushed[i].success


\* The messages of the errors thrown for a missing input field or token.
ConfigErrors ==
  { "missing required input: prompt and actorName are required",
    "claudeOauthToken input or CLAUDE_CODE_OAUTH_TOKEN environment variable is required",
    "APIFY_TOKEN environment variable is required" }

\* C22: when the input lacks prompt or actorName, or no Claude token is
\* available, or APIFY_TOKEN is absent, the agent is never started, nothing is
\* installed or published, every record pushed is a failure record carrying
\* the error message, and the process ends with a failure exit code.
C22_MissingConfigurationIsFatal ==
  builder.error.msg \in ConfigErrors
    => /\ ~builder.agentStarted
       /\ builder.steps = << >>
       /\ \A i \in DOMAIN builder.pushed :
            /\ ~builder.pushed[i].success
            /\ builder.pushed[i].error = builder.error.msg
       /\ builder.pc = "exited" => builder.exitCode # "0"


\* The run got past the checks of publish(): the final name and version are
\* computed.
Publishing == pub.finalVersion # << >>

\* The version the command line and the directory's config call for.
VersionCalledFor ==
  IF pub.cmd.version # Undefined THEN pub.cmd.version.v
  ELSE IF ConfigVersion(pub.config) # Undefined THEN ConfigVersion(pub.config).v
  ELSE <<"0",".","1">>

\* C23: the version that is uploaded and built is the one given with
\* --version; without --version it is the version of .actor/actor.json when
\* the file defines one, and "0.1" only when it does not.
C23_VersionDefault ==
  Publishing
    => /\ pub.finalVersion = VersionCalledFor
       /\ \A i \in DOMAIN pub.calls :
            pub.calls[i].op \notin {"actors.list", "versions.list"}
              => pub.calls[i].version = VersionCalledFor

\* C24: when the command line gives no directory argument, the directory
\* published is '.', whatever options are present.
C24_DirectoryDefault ==
  (pub.pc # "start" /\ ~pub.cmd.help /\ pub.cmd.dir = Undefined)
    => pub.directory = <<".">>


UploadOps == { "version.update", "versions.create", "actors.create" }

\* The positions in `calls` of the calls of the operations `ops`.
CallsOf(ops) == { i \in DOMAIN pub.calls : pub.calls[i].op \in ops }

\* The upload operation the account's state calls for when the listing of
\* the actors succeeded (listed) or failed.
UploadCalledFor(listed) ==
  IF listed /\ pub.finalName \in pub.remoteActors
  THEN IF pub.finalVersion \in pub.remoteVersions
       THEN "version.update" ELSE "versions.create"
  ELSE "actors.create"

\* At most one upload and one build are called; a build is called only
\* after the one upload succeeded, for the final version and with the
\* bounded wait; a run that ends without an error made exactly one upload
\* and one build.
C29_Counts ==
  /\ Cardinality(CallsOf(UploadOps)) <= 1
  /\ Cardinality(CallsOf({"build"})) <= 1
  /\ \A b \in CallsOf({"build"}) :
       /\ \E u \in CallsOf(UploadOps) :
            u < b /\ pub.calls[u].ok /\ pub.calls[u].version = pub.finalVersion
       /\ pub.calls[b].version = pub.finalVersion
       /\ pub.calls[b].ok => pub.buildWait = waitForFinish
  /\ (pub.pc = "exited" /\ pub.exit = "0" /\ ~pub.cmd.help)
       => /\ Cardinality(CallsOf(UploadOps)) = 1
          /\ Cardinality(CallsOf({"build"})) = 1

\* A step that calls an upload operation calls the one the account's state
\* before the step, and the outcome of the listing, call for.
C29_Choice ==
  (Len(pub'.calls) = Len(pub.calls) + 1 /\ pub'.calls[Len(pub'.calls)].op \in UploadOps)
    => /\ pub.calls[1].op = "actors.list"
       /\ pub'.calls[Len(pub'.calls)].op = UploadCalledFor(pub.calls[1].ok)
       /\ pub'.calls[Len(pub'.calls)].version = pub.finalVersion

\* C29: a publish run performs one upload action: it updates the version
\* when an actor of the final name exists and has the final version, creates
\* the version when the actor exists without it, and creates a new actor
\* when no such actor is found or the listing fails; one build of the final
\* version is then triggered, only after the upload succeeded, with a
\* bounded wait.
C29_CreateOrUpdate == [](C29_Counts) /\ [][C29_Choice]_vars

C29_Witness ==
  /\ pub.pc = "exited"
  /\ pub.exit = "0"
  /\ pub.status = "RUNNING"
  /\ Len(pub.calls) = 4
  /\ pub.calls[3].op = "version.update"
  /\ pub.calls[4].op = "build"

\* No API token is available to publish(): neither --token nor APIFY_TOKEN.
NoToken == pub.cmd.token = Undefined /\ pub.envToken = Undefined

\* C30: when no API token is available or the target directory does not
\* exist, publish() throws before any file is read and before any API call,
\* and the process exits with status 1.
C30_PublishPreconditions ==
  (pub.pc # "start" /\ ~pub.cmd.help /\ (NoToken \/ pub.directory \notin ExistingDirs))
    => /\ pub.pc = "exited"
       /\ pub.exit = "1"
       /\ pub.error \in {"APIFY_TOKEN is required. set it via env or --token flag",
                         "directory not found"}
       /\ pub.calls = << >>
       /\ \A i \in DOMAIN pub.fsOps : pub.fsOps[i] = "existsSync directory"

C30_Witness ==
  /\ pub.pc = "exited"
  /\ pub.cmd.dir = Str(<<"g","o","n","e">>)
  /\ pub.directory = <<"g","o","n","e">>
  /\ ~NoToken
  /\ pub.exit = "1"


\* The handler of slot h is waiting: for the end of the request body, or
\* for Actor.pushData to settle.
Waiting(h) == handlers[h].pc \in {"reading", "pushing", "stored"}

\* C25: every accepted non-probe request eventually receives its response
\* (200 or 500), even when the client stalls while sending the body or the
\* persistence call never completes: no handler waits forever.
C25_BoundedResponse ==
  \A h \in Handlers :
    Waiting(h) ~> (handlers[h].pc = "done" /\ handlers[h].response # NoResponse)


\* The step writes the 200 response of the non-probe request of slot h.
Responds200(h) ==
  /\ handlers[h].response = NoResponse
  /\ handlers'[h].response.status = 200
  /\ ~IsProbe(handlers'[h].req)

\* When a 200 response is written, the request's record is in the dataset
\* already and the body is that record, with the request's method and url.
C26_RespondStep(h) ==
  Responds200(h)
    => /\ \E i \in DOMAIN dataset : dataset[i] = handlers'[h].response.body
       /\ handlers'[h].response.body = ToJSON(handlers'[h].result)
       /\ handlers'[h].response.body.f[kMethod] = Str(handlers'[h].req.method)
       /\ handlers'[h].response.body.f[kUrl] = Str(handlers'[h].req.url)

\* A handler whose append failed has answered 500 with the error body.
C26_FailedAppend(hrec) ==
  hrec.error = PushDataFailed
    => /\ hrec.response = ErrorResponse(PushDataFailed)
       /\ hrec.response.status = 500
       /\ hrec.response.body # ToJSON(hrec.result)

\* C26: in standby mode a 200 response is written only after the request's
\* record has been appended to the dataset, and its body is that record with
\* method and url echoed; if the append fails the client gets the 500 error
\* body and never the result.
C26_PersistBeforeRespond ==
  /\ [][\A h \in Handlers : C26_RespondStep(h)]_vars
  /\ [](\A h \in Handlers : C26_FailedAppend(handlers[h]))

C26_Witness ==
  \E h \in Handlers :
    /\ handlers[h].pc = "done"
    /\ ~IsProbe(handlers[h].req)
    /\ handlers[h].response.status = 200
    /\ handlers[h].response.body.f[kMethod] = Str(GET)
    /\ dataset = << handlers[h].response.body >>


C28_Own(hrec) ==
  /\ hrec.pc = "reading" => hrec.body \o hrec.rest = hrec.req.body
  /\ (Processed(hrec) /\ HasResult(hrec))
       => /\ ReadsBody(hrec.req) => hrec.body = hrec.req.body
          /\ \E ms \in 0..now :
               hrec.result = StandbyPipeline(hrec.req, hrec.body, ms).result
  /\ (hrec.response.status = 200 /\ ~IsProbe(hrec.req))
       => hrec.response = ResultResponse(hrec.result)

\* A step of one handler leaves every other handler as it was, and a record
\* appended in standby mode is the result of the handler that appended it.
C28_Step ==
  /\ \A h \in Handlers :
       handlers'[h] # handlers[h]
         => \A g \in Handlers \ {h} : handlers'[g] = handlers[g]
  /\ (dataset' # dataset /\ mainPc = "serving")
       => \E h \in Handlers :
            /\ handlers[h].pc = "pushing" /\ handlers'[h].pc = "stored"
            /\ dataset' = Append(dataset, ToJSON(handlers[h].result))

====
